---- MODULE Spec2Model ----
(***************************************************************************)
(* A model of the BroAi runtime core: the inference actor (llm/mod.rs),    *)
(* the chat request pipeline (api/chat.rs), the conversation store        *)
(* (memory/mod.rs), the plugin registry and runner (plugins/mod.rs).       *)
(*                                                                         *)
(* Strings are sequences of one-character strings.  Assistant texts that   *)
(* the code builds with format! are tagged tuples holding the formatted    *)
(* arguments.                                                              *)
(***************************************************************************)
EXTENDS Integers, Sequences, FiniteSets, TLC

(***************************************************************************)
(* Bounds of the model and program constants.                              *)
(***************************************************************************)
\* requests the mixed workload (Spec) admits
MaxReq == 2
\* requests the inference workload (SpecLlm) admits
MaxLlm == 3
\* requests the plugin workload (SpecRunner) admits
MaxRun == 1
\* requests the inference-only burst workload (SpecBurst) admits
MaxBurst == 34
\* jobs the slow worker of the burst workload gets to dequeue
MaxServe == 2

\* calls of load_or_generate the identity workload (SpecIdentity) admits
MaxBoot == 3

\* requests the registry workload (SpecRegistry) admits
MaxReg == 1
\* .json files in the plugin directory of the registry workload
MaxFiles == 3

\* requests the parsing workload (SpecParse) admits
MaxParse == 1

\* readiness requests the health workload (SpecHealth) admits
MaxProbe == 2
\* chat requests the health workload admits
MaxHealth == 1
MaxDir == 2
MaxPipe == 8

\* llm/mod.rs:9
QUEUE_CAPACITY == 32

\* security/mod.rs:49: the length of the seed, [u8; 32]
KEY_LEN == 32

(***************************************************************************)
(* Strings.                                                                *)
(***************************************************************************)
Whitespace == {" ", "\n", "\t"}

RECURSIVE TrimStart(_)
TrimStart(s) ==
    IF s # <<>> /\ Head(s) \in Whitespace THEN TrimStart(Tail(s)) ELSE s

RECURSIVE TrimEnd(_)
TrimEnd(s) ==
    IF s # <<>> /\ s[Len(s)] \in Whitespace
    THEN TrimEnd(SubSeq(s, 1, Len(s) - 1))
    ELSE s

\* str::trim
Trim(s) == TrimEnd(TrimStart(s))

LowerChar(c) ==
    CASE c = "C" -> "c"
      [] c = "H" -> "h"
      [] c = "N" -> "n"
      [] OTHER -> c

\* str::to_lowercase
ToLower(s) == [i \in 1..Len(s) |-> LowerChar(s[i])]

\* index of the first space of s, 0 when there is none
RECURSIVE FirstSpaceFrom(_, _)
FirstSpaceFrom(s, i) ==
    IF i > Len(s) THEN 0
    ELSE IF s[i] = " " THEN i
    ELSE FirstSpaceFrom(s, i + 1)

\* str::splitn(2, ' '): the part before the first space, and the rest
SplitHead(s) ==
    LET k == FirstSpaceFrom(s, 1) IN IF k = 0 THEN s ELSE SubSeq(s, 1, k - 1)

SplitRest(s) ==
    LET k == FirstSpaceFrom(s, 1) IN
    IF k = 0 THEN <<>> ELSE SubSeq(s, k + 1, Len(s))

\* str::split_whitespace().count()
RECURSIVE WordCountFrom(_, _, _)
WordCountFrom(s, i, inWord) ==
    IF i > Len(s) THEN 0
    ELSE IF s[i] \in Whitespace THEN WordCountFrom(s, i + 1, FALSE)
    ELSE (IF inWord THEN 0 ELSE 1) + WordCountFrom(s, i + 1, TRUE)

WordCount(s) == WordCountFrom(s, 1, FALSE)

(***************************************************************************)
(* Chat messages and command extraction (api/chat.rs).                     *)
(***************************************************************************)
Msg(role, content) == [role |-> role, content |-> content]

None == [some |-> FALSE]
Some(v) == [some |-> TRUE, val |-> v]

\* index of the most recent message with role "user", 0 when there is none
RECURSIVE LastUserIndex(_, _)
LastUserIndex(messages, i) ==
    IF i = 0 THEN 0
    ELSE IF messages[i].role = "user" THEN i
    ELSE LastUserIndex(messages, i - 1)

\* mutant: the command is looked for in the last message, whatever its role
extract_command_of_last_message(messages) ==
    LET k == Len(messages) IN
    IF k = 0 THEN None
    ELSE
      LET text == Trim(messages[k].content) IN
      IF text = <<>> \/ Head(text) # "/" THEN None
      ELSE
        LET without_slash == Tail(text)
            cmd  == ToLower(SplitHead(without_slash))
            args == Trim(SplitRest(without_slash))
        IN IF cmd = <<>> THEN None
           ELSE Some([command |-> cmd, args |-> args])

extract_command(messages) ==
    LET k == LastUserIndex(messages, Len(messages)) IN
    IF k = 0 THEN None
    ELSE
      LET text == Trim(messages[k].content) IN
      IF text = <<>> \/ Head(text) # "/" THEN None
      ELSE
        LET without_slash == Tail(text)
            cmd  == ToLower(SplitHead(without_slash))
            args == Trim(SplitRest(without_slash))
        IN IF cmd = <<>> THEN None
           ELSE Some([command |-> cmd, args |-> args])

RECURSIVE build_prompt(_)
build_prompt(messages) ==
    IF messages = <<>> THEN <<"<|assistant|>", "\n">>
    ELSE
      LET m == Head(messages)
          tagged ==
            CASE m.role = "system" -> <<"<|system|>", "\n">> \o m.content \o <<"\n">>
              [] m.role = "user" -> <<"<|user|>", "\n">> \o m.content \o <<"\n">>
              [] m.role = "assistant" ->
                    <<"<|assistant|>", "\n">> \o m.content \o <<"\n">>
              [] OTHER -> <<m.role, ":", " ">> \o m.content \o <<"\n">>
      IN tagged \o build_prompt(Tail(messages))

\* the text mock_infer formats: "[MOCK] Prompt had {} words. ..."
mock_infer(prompt) == [ok |-> TRUE, text |-> <<"MOCK", WordCount(prompt)>>]

(***************************************************************************)
(* Plugin registry (plugins/mod.rs).  A directory is the sequence of its   *)
(* .json entries in iteration order, each either unparsable (None) or a    *)
(* manifest; binaries is the set of other file names present.              *)
(***************************************************************************)
Manifest(name, description, commands, default_action, payload_from_args) ==
    [name |-> name, description |-> description, commands |-> commands,
     default_action |-> default_action, payload_from_args |-> payload_from_args]

\* entries.insert(cmd.to_lowercase(), manifest.clone()) for every cmd
RECURSIVE InsertAliases(_, _, _)
InsertAliases(entries, commands, manifest) ==
    IF commands = <<>> THEN entries
    ELSE
      LET alias == ToLower(Head(commands))
          next == [a \in DOMAIN entries \cup {alias} |->
                     IF a = alias THEN manifest ELSE entries[a]]
      IN InsertAliases(next, Tail(commands), manifest)

\* mutant: manifests are registered without looking for the binary
RECURSIVE LoadFromUnchecked(_, _, _)
LoadFromUnchecked(files, bins, entries) ==
    IF files = <<>> THEN entries
    ELSE
      LET f == Head(files) IN
      IF ~f.some THEN LoadFromUnchecked(Tail(files), bins, entries)
      ELSE LoadFromUnchecked(Tail(files), bins,
                             InsertAliases(entries, f.val.commands, f.val))

RECURSIVE LoadFrom(_, _, _)
LoadFrom(files, bins, entries) ==
    IF files = <<>> THEN entries
    ELSE
      LET f == Head(files) IN
      IF ~f.some THEN LoadFrom(Tail(files), bins, entries)
      ELSE IF f.val.name \notin bins THEN LoadFrom(Tail(files), bins, entries)
      ELSE LoadFrom(Tail(files), bins,
                    InsertAliases(entries, f.val.commands, f.val))

\* the warnings load logs, in order: one for a manifest that does not
\* parse, one for a manifest whose binary is missing; an insert that
\* replaces an alias logs nothing
RECURSIVE LoadWarnings(_, _)
LoadWarnings(files, bins) ==
    IF files = <<>> THEN <<>>
    ELSE
      LET f == Head(files) IN
      IF ~f.some
      THEN << <<"invalid_manifest">> >> \o LoadWarnings(Tail(files), bins)
      ELSE IF f.val.name \notin bins
      THEN << <<"binary_missing", f.val.name>> >> \o LoadWarnings(Tail(files), bins)
      ELSE LoadWarnings(Tail(files), bins)

EmptyEntries == [a \in {} |-> None]

PluginRegistry_load(files, bins) == LoadFrom(files, bins, EmptyEntries)

resolve(entries, command) ==
    LET key == ToLower(command) IN
    IF key \in DOMAIN entries THEN Some(entries[key]) ELSE None

\* lexicographic order on strings, by the characters' rank
CharRank(c) ==
    CASE c = " " -> 0 [] c = "+" -> 1 [] c = "/" -> 2 [] c = "2" -> 3
      [] c = "a" -> 10 [] c = "c" -> 12 [] c = "e" -> 14 [] c = "h" -> 17
      [] c = "i" -> 18 [] c = "l" -> 21 [] c = "n" -> 23 [] c = "o" -> 24
      [] c = "p" -> 25 [] c = "t" -> 29
      [] OTHER -> 40

RECURSIVE StrLess(_, _)
StrLess(a, b) ==
    IF b = <<>> THEN FALSE
    ELSE IF a = <<>> THEN TRUE
    ELSE IF Head(a) # Head(b) THEN CharRank(Head(a)) < CharRank(Head(b))
    ELSE StrLess(Tail(a), Tail(b))

\* mutant: the list is in descending order
RECURSIVE SortedAliasesDescending(_)
SortedAliasesDescending(S) ==
    IF S = {} THEN <<>>
    ELSE LET most == CHOOSE a \in S : \A b \in S \ {a} : StrLess(b, a)
         IN <<most>> \o SortedAliasesDescending(S \ {most})

RECURSIVE SortedAliases(_)
SortedAliases(S) ==
    IF S = {} THEN <<>>
    ELSE LET least == CHOOSE a \in S : \A b \in S \ {a} : StrLess(a, b)
         IN <<least>> \o SortedAliases(S \ {least})

commands(entries) ==
    LET list == SortedAliases(DOMAIN entries) IN
    [i \in 1..Len(list) |-> <<list[i], entries[list[i]].description>>]

(***************************************************************************)
(* The workload: what a client may send, and the plugin directory the      *)
(* registry is loaded from.                                                *)
(***************************************************************************)
CalcManifest ==
    Manifest("plugin-calculator", "arithmetic", << <<"c", "a", "l", "c">> >>,
             "calculate", TRUE)

PluginDirFiles == << Some(CalcManifest) >>
PluginDirBinaries == {"plugin-calculator"}

\* further manifests of the registry workload: one that declares an alias
\* in upper case and one that calc has too, one that declares help
EchoManifest ==
    Manifest("plugin-echo", "echo", << <<"N", "o", "p", "e">>,
                                       <<"c", "a", "l", "c">> >>,
             "echo", FALSE)

GhostManifest ==
    Manifest("plugin-ghost", "ghost", << <<"h", "e", "l", "p">> >>, "run", TRUE)

\* the .json files a plugin directory may hold: unparsable, or a manifest
ManifestFiles == {None, Some(CalcManifest), Some(EchoManifest),
                  Some(GhostManifest)}

BinaryNames == {"plugin-calculator", "plugin-echo", "plugin-ghost"}

\* the plugin directories: up to MaxFiles distinct .json files in any
\* iteration order, and any set of binaries
PluginDirs ==
    {[files |-> f, bins |-> b] :
       f \in {g \in UNION {[1..k -> ManifestFiles] : k \in 0..MaxFiles} :
                \A i, j \in DOMAIN g : i # j => g[i] # g[j]},
       b \in SUBSET BinaryNames}

MsgHi    == Msg("user", <<"h", "i", " ", "y", "o", "u">>)
MsgHelp  == Msg("user", <<"/", "h", "e", "l", "p">>)
MsgCalc  == Msg("user", <<"/", "C", "a", "l", "c", " ", "2", "+", "2">>)
MsgNope  == Msg("user", <<"/", "n", "o", "p", "e">>)

\* a calc command whose arguments make the plugin request larger than the
\* buffer of a pipe (MaxPipe: that buffer, counted in argument characters)
MsgCalcLong ==
    Msg("user", <<"/", "c", "a", "l", "c", " ">> \o [i \in 1..(MaxPipe + 1) |-> "1"])


(***************************************************************************)
(* Device identity (security/mod.rs).  A key file is its bytes and its     *)
(* permission bits; a signing key is its 32-byte seed.                     *)
(***************************************************************************)
KeyFile(bytes, mode) == [bytes |-> bytes, mode |-> mode]

\* a byte string of n bytes b
Bytes(n, b) == [i \in 1..n |-> b]

\* what SigningKey::generate(&mut OsRng) may return
OsRng == {Bytes(KEY_LEN, 1), Bytes(KEY_LEN, 2)}

\* the mode fs::write creates a file with, by the umask of the process
CreatedModes == {"0644", "0600"}

\* the verifying key is a function of the seed; hex::encode of its bytes
VerifyingKey(signing_key) == <<"vk", signing_key>>

public_key_hex(signing_key) == <<"hex", VerifyingKey(signing_key)>>

Ok(v) == [ok |-> TRUE, val |-> v]
Err(kind) == [ok |-> FALSE, kind |-> kind]

\* mutant: the bytes of the file are taken as the seed whatever their number
load_any_length(file) == Ok(file.bytes)

\* DeviceIdentity::load: the bytes of the file as a [u8; 32], or an error
load(file) ==
    IF Len(file.bytes) # KEY_LEN THEN Err("SecurityError")
    ELSE Ok(file.bytes)

\* the process after a first boot that generated the key
UpWith(signing_key) ==
    [pc |-> "up", signing_key |-> Some(signing_key), found |-> None]

\* one call of load_or_generate: the key file it found, what it returned
\* (the public key hex of the identity, or the error), the key file it left
Boot(found, result, left) == [found |-> found, result |-> result, left |-> left]

(***************************************************************************)
(* State.                                                                  *)
(***************************************************************************)
VARIABLES
    req,        \* the chat requests received so far, in arrival order
    channel,    \* the inference channel: ids of the jobs waiting in it
    wmode,      \* worker: "initializing", "mock", "load_failed", "loaded"
    wpc,        \* worker: "recv" (blocked in blocking_recv), "exec",
                \* "returned" (worker_loop has returned) or "panicked"
    cur,        \* the job the worker has dequeued and is serving, 0 if none
    ready,      \* the actor's ready flag
    modelFile,  \* the file at model_path: "absent", "corrupt" or "valid"
    rows,       \* the conversations table, in row id order
    entries,    \* the plugin registry: alias -> manifest
    binaries,   \* the executables present in the plugin directory
    accepted,   \* history: job ids in the order try_send accepted them
    served,     \* history: job ids in the order the worker dequeued them
    loaded_dir, \* the plugin directory as PluginRegistry::load found it
    key_file,   \* the file at key_path: None, or its bytes and mode
    identity,   \* the process and its DeviceIdentity: where main is, the
                \* signing key it holds, the key file it found
    boots,      \* history: the calls of load_or_generate, with their results
    probes,     \* the readiness requests received so far
    sender      \* the sending side of the inference channel: held by the
                \* server's state or dropped, and (history) the jobs the
                \* channel held when it was dropped

\* the server's state holds the only sender of the inference channel
Held == [held |-> TRUE, left |-> <<>>]

\* the state outside the chat pipeline and the actor
aux == <<loaded_dir, key_file, identity, boots, probes, sender>>

vars == <<req, channel, wmode, wpc, cur, ready, modelFile, rows, entries,
          binaries, accepted, served, aux>>

Init ==
    /\ req = <<>>
    /\ channel = <<>>
    /\ wmode = "initializing"
    /\ wpc = "recv"
    /\ cur = 0
    /\ ready = FALSE
    /\ modelFile \in {"absent", "corrupt", "valid"}
    /\ rows = <<>>
    /\ entries = PluginRegistry_load(PluginDirFiles, PluginDirBinaries)
    /\ binaries = PluginDirBinaries
    /\ accepted = <<>>
    /\ served = <<>>
    /\ loaded_dir = [files |-> PluginDirFiles, bins |-> PluginDirBinaries]
    /\ key_file = Some(KeyFile(Bytes(KEY_LEN, 1), "0600"))
    /\ identity = UpWith(Bytes(KEY_LEN, 1))
    /\ boots = << Boot(None, Ok(public_key_hex(Bytes(KEY_LEN, 1))), key_file) >>
    /\ probes = <<>>
    /\ sender = Held

\* the state after construction over any plugin directory
InitRegistry ==
    /\ req = <<>>
    /\ channel = <<>>
    /\ wmode = "initializing"
    /\ wpc = "recv"
    /\ cur = 0
    /\ ready = FALSE
    /\ modelFile = "absent"
    /\ rows = <<>>
    /\ loaded_dir \in PluginDirs
    /\ entries = PluginRegistry_load(loaded_dir.files, loaded_dir.bins)
    /\ binaries = loaded_dir.bins
    /\ accepted = <<>>
    /\ served = <<>>
    /\ key_file = Some(KeyFile(Bytes(KEY_LEN, 1), "0600"))
    /\ identity = UpWith(Bytes(KEY_LEN, 1))
    /\ boots = << Boot(None, Ok(public_key_hex(Bytes(KEY_LEN, 1))), key_file) >>
    /\ probes = <<>>
    /\ sender = Held

(***************************************************************************)
(* Errors (errors.rs).                                                     *)
(***************************************************************************)
\* the variants of AppError
AppErrorKinds ==
    {"LlmError", "DatabaseError", "PluginError", "SecurityError",
     "ConfigError", "QueueFull", "Timeout", "Cancelled", "InvalidRequest",
     "IoError", "SerdeError"}

\* mutant: only QueueFull and InvalidRequest have a status of their own
StatusOfFewKinds(kind) ==
    CASE kind = "QueueFull" -> 429
      [] kind = "InvalidRequest" -> 400
      [] OTHER -> 500

\* AppError::into_response: the HTTP status of an error kind
StatusOf(kind) ==
    CASE kind = "QueueFull" -> 429
      [] kind = "Timeout" -> 504
      [] kind = "InvalidRequest" -> 400
      [] kind = "SecurityError" -> 403
      [] OTHER -> 500

\* AppError::into_response: the status and the JSON body; the message is
\* the Display text of the error
into_response(kind) ==
    [status |-> StatusOf(kind),
     body |-> [error |-> [message |-> <<"Display", kind>>,
                          type |-> "edge_runtime_error"]]]

(***************************************************************************)
(* A request record.                                                       *)
(*   pc       where the handler is: "await_reply", "spawn", "write",       *)
(*            "poll", "collect", "persist", "done"                         *)
(*   http     0 until the response is returned, then its status            *)
(*   err      the AppError kind returned, "" if none                       *)
(*   content  the assistant message the pipeline produced                  *)
(*   resp     the content of the returned ChatResponse                     *)
(*   saved    the result of save_conversation: "none", "ok" or "err"       *)
(*   reply    the job's oneshot: "none", "open", "sent" or "rx_dropped"    *)
(*   value    what the worker sent on the oneshot                          *)
(*   sends    history: the worker's reply attempts for this job            *)
(*   outcomes history: how many times infer returned to this caller        *)
(*   child    the plugin child: "none", "running", "exited" (terminated,   *)
(*            not waited for) or "reaped"                                  *)
(*   cstdin   whether the child still holds its stdin open                 *)
(*   cout     what the child has written to stdout                         *)
(*   rerr     the PluginError run returned, "" if none                     *)
(*   action, payload   the fields of the PluginRequest                     *)
(***************************************************************************)
NewRequest(messages, model, stream, sid) ==
    [messages |-> messages, model |-> model, stream |-> stream, sid |-> sid,
     session |-> <<>>, pc |-> "done", http |-> 0, err |-> "",
     content |-> <<>>, resp |-> <<>>, saved |-> "none", handed |-> None,
     reply |-> "none", value |-> None, sends |-> 0, outcomes |-> 0,
     manifest |-> None, action |-> "", payload |-> <<>>,
     child |-> "none", cstdin |-> "closed", cout |-> "empty", rerr |-> ""]

\* mutant: the turn is marked for persisting before the error is returned
FailAfterPersist(q, kind) ==
    [q EXCEPT !.pc = "persist", !.err = kind, !.http = StatusOf(kind)]

\* return Err(kind) from chat_completions: rendered by into_response
Fail(q, kind) == [q EXCEPT !.pc = "done", !.err = kind, !.http = StatusOf(kind)]

\* the assistant content is known; ok_response / persist come next
Produced(q, content) == [q EXCEPT !.pc = "persist", !.content = content]

(***************************************************************************)
(* The inference actor (llm/mod.rs).                                       *)
(***************************************************************************)
\* mutant: the capacity test is off by one
try_send_ok_off_by_one(chan) == Len(chan) <= QUEUE_CAPACITY

\* Sender::try_send succeeds when the bounded channel has a free slot
try_send_ok(chan) == Len(chan) < QUEUE_CAPACITY

\* the worker thread is gone and its receiver with it: worker_loop returned,
\* or unwound from a panic
receiver_dropped == wpc \in {"returned", "panicked"}

\* mutant: a job is refused until the worker is ready
infer_enqueue_when_ready(q, r) ==
    IF try_send_ok(channel) /\ ready
    THEN /\ req' = Append(req, [q EXCEPT !.pc = "await_reply", !.reply = "open"])
         /\ channel' = Append(channel, r)
         /\ accepted' = Append(accepted, r)
    ELSE /\ req' = Append(req, [Fail(q, "QueueFull") EXCEPT !.outcomes = 1])
         /\ UNCHANGED <<channel, accepted>>

\* LlmActor::infer up to its await: the enqueue attempt; try_send fails on a
\* full channel and on a closed one, and both errors become QueueFull
infer_enqueue(q, r) ==
    IF try_send_ok(channel) /\ ~receiver_dropped
    THEN /\ req' = Append(req, [q EXCEPT !.pc = "await_reply", !.reply = "open"])
         /\ channel' = Append(channel, r)
         /\ accepted' = Append(accepted, r)
    ELSE /\ req' = Append(req, [Fail(q, "QueueFull") EXCEPT !.outcomes = 1])
         /\ UNCHANGED <<channel, accepted>>

\* mutant: the caller's timeout cancels the job, taking it off the channel
TimeoutCancelsJob(r) ==
    /\ req[r].pc = "await_reply"
    /\ req[r].reply = "open"
    /\ req' = [req EXCEPT ![r] =
                 [Fail(@, "Timeout") EXCEPT !.reply = "rx_dropped",
                                            !.outcomes = @ + 1]]
    /\ channel' = SelectSeq(channel, LAMBDA j : j # r)
    /\ UNCHANGED <<wmode, wpc, cur, ready, modelFile, rows, entries,
                   binaries, aux, accepted, served>>

\* the deadline of timeout(.., reply_rx) passes before a reply was sent:
\* infer returns Timeout and drops reply_rx; the job stays where it is
Timeout(r) ==
    /\ req[r].pc = "await_reply"
    /\ req[r].reply = "open"
    /\ req' = [req EXCEPT ![r] =
                 [Fail(@, "Timeout") EXCEPT !.reply = "rx_dropped",
                                            !.outcomes = @ + 1]]
    /\ UNCHANGED <<channel, wmode, wpc, cur, ready, modelFile, rows, entries,
                   binaries, aux, accepted, served>>

\* mutant: the ready flag is set only when the model was loaded
WorkerInitReadyWhenLoaded ==
    /\ wmode = "initializing"
    /\ wmode' = CASE modelFile = "absent" -> "mock"
                  [] modelFile = "corrupt" -> "load_failed"
                  [] OTHER -> "loaded"
    /\ ready' = (modelFile = "valid")
    /\ UNCHANGED <<req, channel, wpc, cur, modelFile, rows, entries, binaries,
                   aux, accepted, served>>

\* worker_loop up to its receive loop: mock, load-failed or loaded
WorkerInit ==
    /\ wmode = "initializing"
    /\ wmode' = CASE modelFile = "absent" -> "mock"
                  [] modelFile = "corrupt" -> "load_failed"
                  [] OTHER -> "loaded"
    /\ ready' = TRUE
    /\ UNCHANGED <<req, channel, wpc, cur, modelFile, rows, entries, binaries, aux,
                   accepted, served>>

\* mutant: the worker takes the newest job of the channel
WorkerRecvNewest(w) ==
    /\ wmode # "initializing"
    /\ wpc = "recv"
    /\ Len(served) < w.serve
    /\ channel # <<>>
    /\ cur' = channel[Len(channel)]
    /\ channel' = SubSeq(channel, 1, Len(channel) - 1)
    /\ served' = Append(served, channel[Len(channel)])
    /\ wpc' = "exec"
    /\ UNCHANGED <<req, wmode, ready, modelFile, rows, entries, binaries, aux,
                   accepted>>

\* mutant: the worker throws away a job whose caller has gone instead of
\* executing it
WorkerRecvSkipsAbandoned(w) ==
    /\ wmode # "initializing"
    /\ wpc = "recv"
    /\ Len(served) < w.serve
    /\ channel # <<>>
    /\ channel' = Tail(channel)
    /\ served' = Append(served, Head(channel))
    /\ IF req[Head(channel)].reply = "rx_dropped"
       THEN /\ req' = [req EXCEPT ![Head(channel)].sends = 1]
            /\ UNCHANGED <<cur, wpc>>
       ELSE /\ cur' = Head(channel)
            /\ wpc' = "exec"
            /\ UNCHANGED req
    /\ UNCHANGED <<wmode, ready, modelFile, rows, entries, binaries, aux,
                   accepted>>

\* rx.blocking_recv() returns the oldest job of the channel
WorkerRecv(w) ==
    /\ wmode # "initializing"
    /\ wpc = "recv"
    /\ Len(served) < w.serve
    /\ channel # <<>>
    /\ cur' = Head(channel)
    /\ channel' = Tail(channel)
    /\ served' = Append(served, Head(channel))
    /\ wpc' = "exec"
    /\ UNCHANGED <<req, wmode, ready, modelFile, rows, entries, binaries, aux,
                   accepted>>

\* mutant: after a failed load the worker falls back to the mock answers
JobResultMockAfterFailedLoad(mode, q, genOk) ==
    CASE mode \in {"mock", "load_failed"} -> mock_infer(build_prompt(q.messages))
      [] OTHER -> IF genOk THEN [ok |-> TRUE, text |-> <<"GEN">>]
                  ELSE [ok |-> FALSE, kind |-> "LlmError"]

\* what the worker computes for a job, by mode; real_infer may fail
JobResult(mode, q, genOk) ==
    CASE mode = "mock" -> mock_infer(build_prompt(q.messages))
      [] mode = "load_failed" -> [ok |-> FALSE, kind |-> "LlmError"]
      [] OTHER -> IF genOk THEN [ok |-> TRUE, text |-> <<"GEN">>]
                  ELSE [ok |-> FALSE, kind |-> "LlmError"]

\* mutant: the worker skips the send when the caller has gone
reply_send_if_open(q, result) ==
    IF q.reply = "open"
    THEN [q EXCEPT !.reply = "sent", !.value = Some(result), !.sends = @ + 1]
    ELSE q

\* req.reply.send(result): delivered if the caller still holds reply_rx,
\* otherwise the send fails and the result is discarded
reply_send(q, result) ==
    IF q.reply = "open"
    THEN [q EXCEPT !.reply = "sent", !.value = Some(result), !.sends = @ + 1]
    ELSE [q EXCEPT !.sends = @ + 1]

\* the worker finishes the job it holds and answers it
WorkerReply(w) ==
    /\ wpc = "exec"
    /\ \E genOk \in w.genOk :
         req' = [req EXCEPT ![cur] = reply_send(@, JobResult(wmode, @, genOk))]
    /\ wpc' = "recv"
    /\ cur' = 0
    /\ UNCHANGED <<channel, wmode, ready, modelFile, rows, entries, binaries, aux,
                   accepted, served>>

\* real_infer panics inside the model library: nothing in worker_loop
\* catches it, the thread unwinds and drops the job it holds, the receiver
\* and the jobs queued in it, each with its reply sender
WorkerPanics ==
    /\ wmode = "loaded"
    /\ wpc = "exec"
    /\ wpc' = "panicked"
    /\ cur' = 0
    /\ channel' = <<>>
    /\ req' = [r \in DOMAIN req |->
                 IF r = cur \/ \E i \in DOMAIN channel : channel[i] = r
                 THEN [req[r] EXCEPT !.reply = IF @ = "open" THEN "tx_dropped"
                                               ELSE @]
                 ELSE req[r]]
    /\ UNCHANGED <<wmode, ready, modelFile, rows, entries, binaries, aux,
                   accepted, served>>

\* reply_rx resolves to RecvError, the sender dropped without a send: infer
\* returns Cancelled
ReplyDropped(r) ==
    /\ req[r].pc = "await_reply"
    /\ req[r].reply = "tx_dropped"
    /\ req' = [req EXCEPT ![r] = [Fail(@, "Cancelled") EXCEPT !.outcomes = @ + 1]]
    /\ UNCHANGED <<channel, wmode, wpc, cur, ready, modelFile, rows, entries,
                   binaries, aux, accepted, served>>

\* infer returns what came over the oneshot; chat_completions goes on to
\* persist a text and returns an error as it is
Resume(r) ==
    /\ req[r].pc = "await_reply"
    /\ req[r].reply = "sent"
    /\ LET res == req[r].value.val
           q == [req[r] EXCEPT !.outcomes = @ + 1]
       IN req' = [req EXCEPT ![r] =
                    IF res.ok THEN Produced(q, res.text) ELSE Fail(q, res.kind)]
    /\ UNCHANGED <<channel, wmode, wpc, cur, ready, modelFile, rows, entries,
                   binaries, aux, accepted, served>>

\* serve has returned after the shutdown signal, every handler finished:
\* the server's state, and with it the only sender, is dropped
DropSender ==
    /\ sender.held
    /\ \A r \in 1..Len(req) : req[r].pc = "done"
    /\ sender' = [held |-> FALSE, left |-> channel]
    /\ UNCHANGED <<req, channel, wmode, wpc, cur, ready, modelFile, rows,
                   entries, binaries, accepted, served, loaded_dir, key_file,
                   identity, boots, probes>>

\* mutant: the receive fails as soon as the sender is dropped
WorkerReturnAtOnce ==
    /\ wmode # "initializing"
    /\ wpc = "recv"
    /\ ~sender.held
    /\ wpc' = "returned"
    /\ UNCHANGED <<req, channel, wmode, cur, ready, modelFile, rows, entries,
                   binaries, aux, accepted, served>>

\* rx.blocking_recv() returns None, the sender dropped and no job left in
\* the channel: the while let ends and worker_loop returns
WorkerReturn ==
    /\ wmode # "initializing"
    /\ wpc = "recv"
    /\ ~sender.held
    /\ channel = <<>>
    /\ wpc' = "returned"
    /\ UNCHANGED <<req, channel, wmode, cur, ready, modelFile, rows, entries,
                   binaries, aux, accepted, served>>

(***************************************************************************)
(* The plugin runner (plugins/mod.rs) and the child it spawns.             *)
(***************************************************************************)
\* the handler is inside runner.run: from after the binary.exists() test
\* to the return of run
InRun(q) == q.manifest.some /\ q.pc \in {"spawn", "write", "poll", "collect"}

\* the handler's task holds the runtime worker thread that polls it: true
\* between two await points. chat_completions calls runner.run in line,
\* with no spawn_blocking or block_in_place, and run has no await: spawn,
\* write_all, the try_wait loop with its 50 ms thread sleeps and
\* wait_with_output all execute on that thread
OccupiesRuntimeThread(q) == InRun(q)

\* mutant: an error of the runner is returned as an AppError
RunFailedAsHttpError(q, what) == Fail([q EXCEPT !.rerr = what], "PluginError")

\* run returns Err(PluginError): chat_completions turns it into a warning
RunFailed(q, what) ==
    Produced([q EXCEPT !.rerr = what], <<"PLUGIN_FAILED", what>>)

\* Command::spawn
Spawn(r) ==
    /\ req[r].pc = "spawn"
    /\ \E ok \in (IF req[r].manifest.val.name \in binaries THEN BOOLEAN
                 ELSE {FALSE}) :
         req' = [req EXCEPT ![r] =
                   IF ok
                   THEN [@ EXCEPT !.pc = "write", !.child = "running",
                                  !.cstdin = "open"]
                   ELSE RunFailed(@, "spawn")]
    /\ UNCHANGED <<channel, wmode, wpc, cur, ready, modelFile, rows, entries,
                   binaries, aux, accepted, served>>

\* the serialized request fits the buffer of the stdin pipe: write_all
\* then completes whether or not the child reads
FitsPipe(q) ==
    IF "args" \in DOMAIN q.payload THEN Len(q.payload.args) <= MaxPipe
    ELSE TRUE

\* stdin.write_all, then the runner's end of stdin is dropped; the write
\* fails when the child no longer holds the read end, and blocks while the
\* request does not fit the pipe and the child does not read
WriteStdin(r) ==
    /\ req[r].pc = "write"
    /\ req[r].cstdin = "open" => FitsPipe(req[r])
    /\ req' = [req EXCEPT ![r] =
                 IF @.cstdin \in {"open", "reading"}
                 THEN [@ EXCEPT !.pc = "poll"]
                 ELSE RunFailed(@, "stdin_write")]
    /\ UNCHANGED <<channel, wmode, wpc, cur, ready, modelFile, rows, entries,
                   binaries, aux, accepted, served>>

\* try_wait returns Ok(Some(_)): the child has exited and is now reaped
PollExited(r) ==
    /\ req[r].pc = "poll"
    /\ req[r].child = "exited"
    /\ req' = [req EXCEPT ![r] = [@ EXCEPT !.pc = "collect", !.child = "reaped"]]
    /\ UNCHANGED <<channel, wmode, wpc, cur, ready, modelFile, rows, entries,
                   binaries, aux, accepted, served>>

\* the effect of child.kill() followed by return: SIGKILL ends the child,
\* nothing waits for it
kill_and_return(q) == RunFailed([q EXCEPT !.child = "exited", !.cstdin = "closed"],
                                "timeout")

\* try_wait returns Ok(None) after the deadline
PollTimeout(r) ==
    /\ req[r].pc = "poll"
    /\ req[r].child = "running"
    /\ req' = [req EXCEPT ![r] = kill_and_return(@)]
    /\ UNCHANGED <<channel, wmode, wpc, cur, ready, modelFile, rows, entries,
                   binaries, aux, accepted, served>>

\* try_wait returns Err(e)
PollError(r) ==
    /\ req[r].pc = "poll"
    /\ req[r].child \in {"running", "exited"}
    /\ req' = [req EXCEPT ![r] = RunFailed(@, "wait")]
    /\ UNCHANGED <<channel, wmode, wpc, cur, ready, modelFile, rows, entries,
                   binaries, aux, accepted, served>>

\* format_result, and the warning for success = false
PluginContent(q) ==
    IF q.cout = "ok" THEN <<"FORMAT", q.manifest.val.name>>
    ELSE <<"PLUGIN_ERROR">>

\* the assistant texts that chat_completions formats with a leading warning
\* glyph: "Plugin error", "Plugin failed" and "Unknown command"
StartsWithWarning(content) ==
    content # <<>> /\ Head(content) \in {"PLUGIN_ERROR", "PLUGIN_FAILED", "UNKNOWN"}

\* wait_with_output and the decoding of stdout
Collect(r, w) ==
    /\ req[r].pc = "collect"
    /\ \E readOk \in w.readOk :
         req' = [req EXCEPT ![r] =
                   IF ~readOk THEN RunFailed(@, "output_read")
                   ELSE IF @.cout \in {"ok", "fail"}
                        THEN Produced(@, PluginContent(@))
                        ELSE RunFailed(@, "invalid_json")]
    /\ UNCHANGED <<channel, wmode, wpc, cur, ready, modelFile, rows, entries,
                   binaries, aux, accepted, served>>

\* the child writes its response document to stdout
ChildWrites(r) ==
    /\ req[r].child = "running"
    /\ req[r].pc \in {"write", "poll"}
    /\ req[r].cout = "empty"
    /\ \E out \in {"ok", "fail", "garbage"} :
         req' = [req EXCEPT ![r] = [@ EXCEPT !.cout = out]]
    /\ UNCHANGED <<channel, wmode, wpc, cur, ready, modelFile, rows, entries,
                   binaries, aux, accepted, served>>

\* the child, having read its request to the end, writes a response
\* document larger than the buffer of the stdout pipe: its write blocks
\* until the runner reads, and the runner reads only in wait_with_output,
\* after the child has exited
ChildWritesLarge(r) ==
    /\ req[r].child = "running"
    /\ req[r].pc = "poll"
    /\ req[r].cstdin = "reading"
    /\ req[r].cout = "empty"
    /\ req' = [req EXCEPT ![r] = [@ EXCEPT !.cout = "pipe_full"]]
    /\ UNCHANGED <<channel, wmode, wpc, cur, ready, modelFile, rows, entries,
                   binaries, aux, accepted, served>>

\* the child reads its stdin to the end, as plugins do (read_to_string)
ChildReadsStdin(r) ==
    /\ req[r].child = "running"
    /\ req[r].cstdin = "open"
    /\ req[r].cout # "pipe_full"
    /\ req' = [req EXCEPT ![r] = [@ EXCEPT !.cstdin = "reading"]]
    /\ UNCHANGED <<channel, wmode, wpc, cur, ready, modelFile, rows, entries,
                   binaries, aux, accepted, served>>

\* the child closes its stdin and keeps running
ChildClosesStdin(r) ==
    /\ req[r].child = "running"
    /\ req[r].cstdin \in {"open", "reading"}
    /\ req[r].cout # "pipe_full"
    /\ req' = [req EXCEPT ![r] = [@ EXCEPT !.cstdin = "closed"]]
    /\ UNCHANGED <<channel, wmode, wpc, cur, ready, modelFile, rows, entries,
                   binaries, aux, accepted, served>>

\* the child exits
ChildExits(r) ==
    /\ req[r].child = "running"
    /\ req[r].cout # "pipe_full"
    /\ req' = [req EXCEPT ![r] = [@ EXCEPT !.child = "exited", !.cstdin = "closed"]]
    /\ UNCHANGED <<channel, wmode, wpc, cur, ready, modelFile, rows, entries,
                   binaries, aux, accepted, served>>

(***************************************************************************)
(* The request pipeline (api/chat.rs) and the store (memory/mod.rs).       *)
(***************************************************************************)
\* mutant: the arguments are forwarded whatever the manifest says
PayloadOfArgs(manifest, cmd) ==
    IF cmd.args # <<>>
    THEN [command |-> cmd.command, args |-> cmd.args, city |-> cmd.args,
          expression |-> cmd.args, path |-> cmd.args]
    ELSE [command |-> cmd.command]

\* the payload of the PluginRequest
Payload(manifest, cmd) ==
    IF manifest.payload_from_args /\ cmd.args # <<>>
    THEN [command |-> cmd.command, args |-> cmd.args, city |-> cmd.args,
          expression |-> cmd.args, path |-> cmd.args]
    ELSE [command |-> cmd.command]

\* mutant: a command the registry does not know is an invalid request
DispatchRejectsUnknown(q, cmd) ==
    IF cmd.command = <<"h", "e", "l", "p">>
    THEN Produced(q, <<"HELP", commands(entries)>>)
    ELSE
      LET hit == resolve(entries, cmd.command) IN
      IF hit.some
      THEN LET started == [q EXCEPT !.manifest = hit,
                                    !.action = hit.val.default_action,
                                    !.payload = Payload(hit.val, cmd)]
           IN IF hit.val.name \notin binaries
              THEN RunFailed(started, "not_found")
              ELSE [started EXCEPT !.pc = "spawn"]
      ELSE Fail(q, "InvalidRequest")

\* mutant: the registry is asked first, the built-in help second
DispatchResolvesFirst(q, cmd) ==
    LET hit == resolve(entries, cmd.command) IN
    IF hit.some
    THEN LET started == [q EXCEPT !.manifest = hit,
                                  !.action = hit.val.default_action,
                                  !.payload = Payload(hit.val, cmd)]
         IN IF hit.val.name \notin binaries
            THEN RunFailed(started, "not_found")
            ELSE [started EXCEPT !.pc = "spawn"]
    ELSE IF cmd.command = <<"h", "e", "l", "p">>
    THEN Produced(q, <<"HELP", commands(entries)>>)
    ELSE Produced(q, <<"UNKNOWN", cmd.command>>)

\* mutant: a command whose binary has gone is no longer a command
DispatchRescans(q, cmd) ==
    IF cmd.command = <<"h", "e", "l", "p">>
    THEN Produced(q, <<"HELP", commands(entries)>>)
    ELSE
      LET hit == resolve(entries, cmd.command) IN
      IF hit.some /\ hit.val.name \in binaries
      THEN [q EXCEPT !.manifest = hit,
                     !.action = hit.val.default_action,
                     !.payload = Payload(hit.val, cmd),
                     !.pc = "spawn"]
      ELSE Produced(q, <<"UNKNOWN", cmd.command>>)

\* the slash-command side of chat_completions, up to the runner's spawn
Dispatch(q, cmd) ==
    IF cmd.command = <<"h", "e", "l", "p">>
    THEN Produced(q, <<"HELP", commands(entries)>>)
    ELSE
      LET hit == resolve(entries, cmd.command) IN
      IF hit.some
      THEN LET started == [q EXCEPT !.manifest = hit,
                                    !.action = hit.val.default_action,
                                    !.payload = Payload(hit.val, cmd)]
           IN IF hit.val.name \notin binaries
              THEN RunFailed(started, "not_found")
              ELSE [started EXCEPT !.pc = "spawn"]
      ELSE Produced(q, <<"UNKNOWN", cmd.command>>)

\* mutant: the client's session id is ignored
SessionAlwaysMinted(sid, r) == <<"uuid", r>>

\* session_id: the client's, or a fresh UUID
SessionFor(sid, r) == IF sid.some THEN sid.val ELSE <<"uuid", r>>

\* mutant: a slash-command is dispatched and its prompt is also sent to the
\* model
ArriveAlsoInfers(w) ==
    /\ Len(req) < w.limit
    /\ sender.held
    /\ \E shape \in w.shapes :
         LET r == Len(req) + 1
             q0 == NewRequest(shape.messages, "m", shape.stream, shape.sid)
         IN
         IF q0.messages = <<>> \/ q0.stream
         THEN /\ req' = Append(req, Fail(q0, "InvalidRequest"))
              /\ UNCHANGED <<channel, accepted>>
         ELSE
           LET q == [q0 EXCEPT !.session = SessionFor(q0.sid, r)]
               cmd == extract_command(q.messages)
           IN IF cmd.some /\ ~try_send_ok(channel)
              THEN /\ req' = Append(req, Dispatch(q, cmd.val))
                   /\ UNCHANGED <<channel, accepted>>
              ELSE IF cmd.some
              THEN /\ req' = Append(req, [Dispatch(q, cmd.val) EXCEPT !.reply = "open"])
                   /\ channel' = Append(channel, r)
                   /\ accepted' = Append(accepted, r)
              ELSE infer_enqueue(q, r)
    /\ UNCHANGED <<wmode, wpc, cur, ready, modelFile, rows, entries, binaries,
                   aux, served>>

\* mutant: stream = true is not rejected
ArriveStreaming(w) ==
    /\ Len(req) < w.limit
    /\ \E shape \in w.shapes :
         LET r == Len(req) + 1
             q0 == NewRequest(shape.messages, "m", shape.stream, shape.sid)
         IN
         IF q0.messages = <<>>
         THEN /\ req' = Append(req, Fail(q0, "InvalidRequest"))
              /\ UNCHANGED <<channel, accepted>>
         ELSE
           LET q == [q0 EXCEPT !.session = SessionFor(q0.sid, r)]
               cmd == extract_command(q.messages)
           IN IF cmd.some
              THEN /\ req' = Append(req, Dispatch(q, cmd.val))
                   /\ UNCHANGED <<channel, accepted>>
              ELSE infer_enqueue(q, r)
    /\ UNCHANGED <<wmode, wpc, cur, ready, modelFile, rows, entries, binaries,
                   aux, served>>

\* chat_completions from its entry to its first suspension
Arrive(w) ==
    /\ Len(req) < w.limit
    /\ sender.held
    /\ \E shape \in w.shapes :
         LET r == Len(req) + 1
             q0 == NewRequest(shape.messages, "m", shape.stream, shape.sid)
         IN
         IF q0.messages = <<>> \/ q0.stream
         THEN /\ req' = Append(req, Fail(q0, "InvalidRequest"))
              /\ UNCHANGED <<channel, accepted>>
         ELSE
           LET q == [q0 EXCEPT !.session = SessionFor(q0.sid, r)]
               cmd == extract_command(q.messages)
           IN IF cmd.some
              THEN /\ req' = Append(req, Dispatch(q, cmd.val))
                   /\ UNCHANGED <<channel, accepted>>
              ELSE infer_enqueue(q, r)
    /\ UNCHANGED <<wmode, wpc, cur, ready, modelFile, rows, entries, binaries, aux,
                   served>>

\* the row save_conversation inserts for request r (by: history, the
\* request that wrote the row)
RowOf(q, r) ==
    [id |-> Len(rows) + 1,
     by |-> r,
     session_id |-> q.session,
     user_msg |-> q.messages[Len(q.messages)].content,
     assistant_msg |-> q.content,
     model |-> q.model]

\* what persist leaves in the handler: an error of the store is only logged
persisted(q, dbOk) ==
    [q EXCEPT !.saved = IF dbOk THEN "ok" ELSE "err",
              !.handed = Some([assistant_message |-> q.content,
                               model |-> q.model])]

\* mutant: the response names the model the actor serves, not the model of
\* the request
respond_with_actor_model(q) ==
    [q EXCEPT !.pc = "done", !.http = 200,
              !.resp = [content |-> q.content, model |-> "unknown-model"]]

\* mutant: an error of the store is returned to the client
respond_unless_store_failed(q) ==
    IF q.saved = "err" THEN Fail(q, "DatabaseError")
    ELSE [q EXCEPT !.pc = "done", !.http = 200,
                   !.resp = [content |-> q.content, model |-> q.model]]

\* the returned ChatResponse
respond(q) ==
    [q EXCEPT !.pc = "done", !.http = 200,
              !.resp = [content |-> q.content, model |-> q.model]]

\* mutant: the response is returned first and the row is written later
PersistAfterResponse(r, w) ==
    /\ \/ /\ req[r].pc = "persist"
          /\ req' = [req EXCEPT ![r] = [respond(@) EXCEPT !.pc = "write_later"]]
          /\ UNCHANGED rows
       \/ /\ req[r].pc = "write_later"
          /\ \E dbOk \in w.dbOk :
               /\ rows' = IF dbOk THEN Append(rows, RowOf(req[r], r)) ELSE rows
               /\ req' = [req EXCEPT ![r] = [persisted(@, dbOk) EXCEPT !.pc = "done"]]
    /\ UNCHANGED <<channel, wmode, wpc, cur, ready, modelFile, entries,
                   binaries, aux, accepted, served>>

\* persist (the INSERT under the store's lock) and the response
Persist(r, w) ==
    /\ req[r].pc = "persist"
    /\ \E dbOk \in w.dbOk :
         /\ rows' = IF dbOk THEN Append(rows, RowOf(req[r], r)) ELSE rows
         /\ req' = [req EXCEPT ![r] = respond(persisted(@, dbOk))]
    /\ UNCHANGED <<channel, wmode, wpc, cur, ready, modelFile, entries,
                   binaries, aux, accepted, served>>

\* the environment removes an executable from the plugin directory after
\* the registry was loaded; run sees it in binary.exists() and in spawn
DeleteBinary ==
    /\ \E b \in binaries : binaries' = binaries \ {b}
    /\ UNCHANGED <<req, channel, wmode, wpc, cur, ready, modelFile, rows,
                   entries, aux, accepted, served>>

(***************************************************************************)
(* The process and its device identity (main.rs, security/mod.rs).         *)
(***************************************************************************)
\* the variables no step of the identity's life changes
serving == <<req, channel, wmode, wpc, cur, ready, modelFile, rows, entries,
             binaries, accepted, served, loaded_dir, probes, sender>>

Down == [pc |-> "down", signing_key |-> None, found |-> None]

\* mutant: a key is generated whether or not the key file exists
always_generate ==
    /\ identity.pc = "down"
    /\ Len(boots) < MaxBoot
    /\ identity' = [pc |-> "generate", signing_key |-> None, found |-> key_file]
    /\ UNCHANGED <<key_file, boots, serving>>

\* main starts and calls load_or_generate, which looks for the key file
load_or_generate ==
    /\ identity.pc = "down"
    /\ Len(boots) < MaxBoot
    /\ identity' = [pc |-> IF key_file.some THEN "load" ELSE "generate",
                    signing_key |-> None, found |-> key_file]
    /\ UNCHANGED <<key_file, boots, serving>>

\* DeviceIdentity::load and its return to main, which exits on an error
LoadKey ==
    /\ identity.pc = "load"
    /\ LET res == load(key_file.val) IN
       IF res.ok
       THEN /\ identity' = [identity EXCEPT !.pc = "up",
                                            !.signing_key = Some(res.val)]
            /\ boots' = Append(boots, Boot(identity.found,
                                           Ok(public_key_hex(res.val)), key_file))
       ELSE /\ identity' = Down
            /\ boots' = Append(boots, Boot(identity.found, Err(res.kind), key_file))
    /\ UNCHANGED <<key_file, serving>>

\* DeviceIdentity::generate up to fs::write: the seed is drawn, the parent
\* directory created and the file written; either may fail, and a failed
\* write may leave no file or an empty one
GenerateWrite ==
    /\ identity.pc = "generate"
    /\ \E seed \in OsRng, mode \in CreatedModes,
          how \in {"written", "mkdir_failed", "write_failed"} :
         CASE how = "written" ->
                /\ key_file' = Some(KeyFile(seed, mode))
                /\ identity' = [identity EXCEPT !.pc = "set_permissions",
                                                !.signing_key = Some(seed)]
                /\ UNCHANGED boots
           [] how = "mkdir_failed" ->
                /\ identity' = Down
                /\ boots' = Append(boots, Boot(identity.found, Err("IoError"),
                                               key_file))
                /\ UNCHANGED key_file
           [] OTHER ->
                /\ key_file' \in {key_file, Some(KeyFile(<<>>, mode))}
                /\ identity' = Down
                /\ boots' = Append(boots, Boot(identity.found, Err("IoError"),
                                               key_file'))
    /\ UNCHANGED serving

\* fs::set_permissions(key_path, 0o600) and the return to main
GenerateSetPermissions ==
    /\ identity.pc = "set_permissions"
    /\ \E ok \in BOOLEAN :
         IF ok
         THEN /\ key_file' = Some(KeyFile(key_file.val.bytes, "0600"))
              /\ identity' = [identity EXCEPT !.pc = "up"]
              /\ boots' = Append(boots,
                     Boot(identity.found,
                          Ok(public_key_hex(identity.signing_key.val)), key_file'))
         ELSE /\ identity' = Down
              /\ boots' = Append(boots, Boot(identity.found, Err("IoError"),
                                             key_file))
              /\ UNCHANGED key_file
    /\ UNCHANGED serving

\* the service is stopped
Stop ==
    /\ identity.pc = "up"
    /\ identity' = Down
    /\ UNCHANGED <<key_file, boots, serving>>

\* the operator deletes the key file between two runs
DeleteKeyFile ==
    /\ identity.pc = "down"
    /\ key_file.some
    /\ key_file' = None
    /\ UNCHANGED <<identity, boots, serving>>

\* the machine before the first start of the service: no key file, a key
\* file of a former installation, or a file of another length
InitIdentity ==
    /\ req = <<>>
    /\ channel = <<>>
    /\ wmode = "initializing"
    /\ wpc = "recv"
    /\ cur = 0
    /\ ready = FALSE
    /\ modelFile = "absent"
    /\ rows = <<>>
    /\ loaded_dir = [files |-> PluginDirFiles, bins |-> PluginDirBinaries]
    /\ entries = PluginRegistry_load(PluginDirFiles, PluginDirBinaries)
    /\ binaries = PluginDirBinaries
    /\ accepted = <<>>
    /\ served = <<>>
    /\ key_file \in {None,
                      Some(KeyFile(Bytes(KEY_LEN, 3), "0600")),
                      Some(KeyFile(Bytes(KEY_LEN - 1, 3), "0600")),
                      Some(KeyFile(Bytes(KEY_LEN + 1, 3), "0644")),
                      Some(KeyFile(<<>>, "0600"))}
    /\ identity = Down
    /\ boots = <<>>
    /\ probes = <<>>
    /\ sender = Held

(***************************************************************************)
(* Readiness (api/health.rs).  A probe is one GET /health/ready:           *)
(*   pc          "ping" while the handler awaits the store, then "done"    *)
(*   llm_loaded  what is_ready returned                                    *)
(*   worker      history: the state of the worker when is_ready was read   *)
(*   memory_ok, ready   the other fields of the ReadinessResponse          *)
(***************************************************************************)
\* LlmActor::is_ready
is_ready == ready

\* the variables no readiness request changes
unprobed == <<req, channel, wmode, wpc, cur, ready, modelFile, rows, entries,
              binaries, accepted, served, loaded_dir, key_file, identity, boots,
              sender>>

\* mutant: llm_loaded reports whether the model was loaded
readiness_check_of_model ==
    /\ Len(probes) < MaxProbe
    /\ probes' = Append(probes, [pc |-> "ping", llm_loaded |-> (wmode = "loaded"),
                                 worker |-> wmode, memory_ok |-> FALSE,
                                 ready |-> FALSE])
    /\ UNCHANGED unprobed

\* readiness_check up to the await of ping
readiness_check ==
    /\ Len(probes) < MaxProbe
    /\ probes' = Append(probes, [pc |-> "ping", llm_loaded |-> is_ready,
                                 worker |-> wmode, memory_ok |-> FALSE,
                                 ready |-> FALSE])
    /\ UNCHANGED unprobed

\* ping returns and the ReadinessResponse is built
readiness_respond(k) ==
    /\ probes[k].pc = "ping"
    /\ \E ping_ok \in BOOLEAN :
         probes' = [probes EXCEPT ![k] =
                      [@ EXCEPT !.pc = "done", !.memory_ok = ping_ok,
                                !.ready = probes[k].llm_loaded /\ ping_ok]]
    /\ UNCHANGED unprobed

(***************************************************************************)
(* Workloads and specifications.                                           *)
(***************************************************************************)
\* the session id a client sends; a minted one is <<"uuid", r>>
ClientSession == <<"s1", 0>>

Shape(messages, stream, sid) ==
    [messages |-> messages, stream |-> stream, sid |-> sid]

\* the mixed workload: every route, caller timeouts, store and generation
\* failures, plugin children that answer, fail or hang
Mixed ==
    [limit |-> MaxReq,
     shapes |-> {Shape(<<>>, FALSE, None),
                 Shape(<<MsgHi>>, TRUE, None),
                 Shape(<<MsgHi>>, FALSE, None),
                 Shape(<<MsgHelp>>, FALSE, Some(ClientSession)),
                 Shape(<<MsgCalc>>, FALSE, None),
                 Shape(<<MsgNope>>, FALSE, Some(ClientSession))},
     dbOk |-> BOOLEAN,
     genOk |-> BOOLEAN,
     readOk |-> {TRUE},
     serve |-> MaxReq]

\* the inference workload: requests for the model only
Llm ==
    [limit |-> MaxLlm,
     shapes |-> {Shape(<<MsgHi>>, FALSE, None),
                 Shape(<<MsgHi>>, FALSE, Some(ClientSession))},
     dbOk |-> BOOLEAN,
     genOk |-> BOOLEAN,
     readOk |-> {TRUE},
     serve |-> MaxLlm]

\* the burst: inference requests only, arriving faster than a slow worker
\* serves them; callers that wait, no failures
Burst ==
    [limit |-> MaxBurst,
     shapes |-> {Shape(<<MsgHi>>, FALSE, None)},
     dbOk |-> {TRUE},
     genOk |-> {TRUE},
     readOk |-> {TRUE},
     serve |-> MaxServe]

\* the startup workload: the burst arriving while the worker is still
\* loading the model, and a worker that then serves all of it
Startup ==
    [limit |-> MaxBurst,
     shapes |-> {Shape(<<MsgHi>>, FALSE, None)},
     dbOk |-> {TRUE},
     genOk |-> {TRUE},
     readOk |-> {TRUE},
     serve |-> MaxBurst]

\* the pipe workload: plugin commands with small and large requests, and
\* children that read or ignore their stdin and write small or large
\* responses
Pipe ==
    [limit |-> MaxRun,
     shapes |-> {Shape(<<MsgCalc>>, FALSE, None),
                 Shape(<<MsgCalcLong>>, FALSE, None)},
     dbOk |-> {TRUE},
     genOk |-> {TRUE},
     readOk |-> BOOLEAN,
     serve |-> MaxRun]

\* the plugin workload: plugin commands only, every child behaviour and
\* every failure of the runner's system calls
Runner ==
    [limit |-> MaxRun,
     shapes |-> {Shape(<<MsgCalc>>, FALSE, None),
                 Shape(<<MsgCalc>>, FALSE, Some(ClientSession))},
     dbOk |-> BOOLEAN,
     genOk |-> BOOLEAN,
     readOk |-> BOOLEAN,
     serve |-> MaxRun]

\* the directory workload: plugin commands while the plugin directory
\* loses its executables; the children all exit before the deadline
Directory ==
    [limit |-> MaxDir,
     shapes |-> {Shape(<<MsgCalc>>, FALSE, None)},
     dbOk |-> BOOLEAN,
     genOk |-> {TRUE},
     readOk |-> {TRUE},
     serve |-> MaxDir]

\* the registry workload: the slash-commands, over every plugin directory;
\* the children of this workload all exit before the runner's deadline
Registry ==
    [limit |-> MaxReg,
     shapes |-> {Shape(<<MsgHelp>>, FALSE, None),
                 Shape(<<MsgCalc>>, FALSE, None),
                 Shape(<<Msg("user", <<"/", "c", "a", "l", "c">>)>>, FALSE,
                       Some(ClientSession))},
     dbOk |-> {TRUE},
     genOk |-> {TRUE},
     readOk |-> {TRUE},
     serve |-> MaxReg]

\* the texts of the parsing workload
TextEmpty     == <<>>
TextSlash     == <<"/">>
TextSlashPad  == <<" ", "/", " ">>
TextSlashGap  == <<"/", " ", "c", "a", "l", "c">>
TextHelp      == <<"/", "h", "e", "l", "p">>
TextHelpMe    == <<"\t", "/", "H", "e", "l", "p", " ", "m", "e", "\n">>
TextCalc      == <<"/", "c", "a", "l", "c">>
TextCalcPad   == <<" ", " ", "/", "C", "a", "l", "c", " ", "2", "+", "2", " ">>
TextCalcWide  == <<"/", "c", "a", "l", "c", " ", " ", "2", " ", "+", "2">>
TextCalcTab   == <<"/", "c", "a", "l", "c", "\t", "2">>
TextMidSlash  == <<"h", "i", " ", "/", "c", "a", "l", "c">>
TextNope      == <<"/", "n", "o", "p", "e">>
TextHi        == <<"h", "i", " ", "y", "o", "u">>

ParseTexts ==
    {TextEmpty, TextSlash, TextSlashPad, TextSlashGap, TextHelp, TextHelpMe,
     TextCalc, TextCalcPad, TextCalcWide, TextCalcTab, TextMidSlash, TextNope,
     TextHi}

\* the parsing workload: one user message of every text; a command that is
\* not the last message, or not a user's; empty and streaming requests
Parse ==
    [limit |-> MaxParse,
     shapes |->
       {Shape(<<Msg("user", t)>>, FALSE, None) : t \in ParseTexts}
       \cup {Shape(<<Msg("user", t), Msg("assistant", TextHelp)>>, FALSE, None) :
               t \in {TextCalcPad, TextHi}}
       \cup {Shape(<<Msg("user", TextCalc), Msg("user", TextHi)>>, FALSE, None),
              Shape(<<Msg("assistant", TextHelp)>>, FALSE, None),
              Shape(<<Msg("system", TextNope), Msg("user", TextHelp),
                      Msg("tool", TextCalc)>>, FALSE, None)}
       \cup {Shape(m, TRUE, None) :
               m \in {<<>>, <<Msg("user", TextCalcPad)>>, <<Msg("user", TextHi)>>}}
       \cup {Shape(<<>>, FALSE, None)},
     dbOk |-> {TRUE},
     genOk |-> {TRUE},
     readOk |-> {TRUE},
     serve |-> MaxParse]

\* the health workload: an inference request beside the readiness requests
Health ==
    [limit |-> MaxHealth,
     shapes |-> {Shape(<<MsgHi>>, FALSE, None)},
     dbOk |-> {TRUE},
     genOk |-> {TRUE},
     readOk |-> {TRUE},
     serve |-> MaxHealth]

Requests == 1..Len(req)

Next ==
    \/ Arrive(Mixed)
    \/ WorkerInit
    \/ WorkerRecv(Mixed)
    \/ WorkerReply(Mixed)
    \/ \E r \in Requests : Timeout(r)
    \/ \E r \in Requests : Resume(r)
    \/ \E r \in Requests : Persist(r, Mixed)
    \/ \E r \in Requests : Spawn(r)
    \/ \E r \in Requests : WriteStdin(r)
    \/ \E r \in Requests : PollExited(r)
    \/ \E r \in Requests : PollTimeout(r)
    \/ \E r \in Requests : Collect(r, Mixed)
    \/ \E r \in Requests : ChildWrites(r)
    \/ \E r \in Requests : ChildExits(r)

Spec == Init /\ [][Next]_vars

NextLlm ==
    \/ Arrive(Llm)
    \/ WorkerInit
    \/ WorkerRecv(Llm)
    \/ WorkerReply(Llm)
    \/ \E r \in Requests : Timeout(r)
    \/ \E r \in Requests : Resume(r)
    \/ \E r \in Requests : Persist(r, Llm)

SpecLlm == Init /\ [][NextLlm]_vars

\* the worker is an OS thread of its own: it takes every step it can
SpecLlmFair ==
    /\ SpecLlm
    /\ WF_vars(WorkerInit)
    /\ WF_vars(WorkerRecv(Llm))
    /\ WF_vars(WorkerReply(Llm))

\* the inference workload up to the shutdown of the server and the end of
\* the worker
NextShutdown ==
    \/ Arrive(Llm)
    \/ WorkerInit
    \/ WorkerRecv(Llm)
    \/ WorkerReply(Llm)
    \/ \E r \in Requests : Timeout(r)
    \/ \E r \in Requests : Resume(r)
    \/ \E r \in Requests : Persist(r, Llm)
    \/ DropSender
    \/ WorkerReturn

SpecShutdown == Init /\ [][NextShutdown]_vars

SpecShutdownFair ==
    /\ SpecShutdown
    /\ WF_vars(WorkerInit)
    /\ WF_vars(WorkerRecv(Llm))
    /\ WF_vars(WorkerReply(Llm))
    /\ WF_vars(WorkerReturn)

NextDirectory ==
    \/ Arrive(Directory)
    \/ DeleteBinary
    \/ \E r \in Requests : ChildWrites(r)
    \/ \E r \in Requests : ChildExits(r)
    \/ \E r \in Requests : Spawn(r)
    \/ \E r \in Requests : WriteStdin(r)
    \/ \E r \in Requests : PollExited(r)
    \/ \E r \in Requests : Collect(r, Directory)
    \/ \E r \in Requests : Persist(r, Directory)

SpecDirectory == Init /\ [][NextDirectory]_vars

\* the inference workload with a worker thread that may die in real_infer
NextPanic ==
    \/ Arrive(Llm)
    \/ WorkerInit
    \/ WorkerRecv(Llm)
    \/ WorkerReply(Llm)
    \/ WorkerPanics
    \/ \E r \in Requests : ReplyDropped(r)
    \/ \E r \in Requests : Timeout(r)
    \/ \E r \in Requests : Resume(r)
    \/ \E r \in Requests : Persist(r, Llm)

SpecPanic == Init /\ [][NextPanic]_vars

\* the callers of the startup workload wait; the steps are the arrivals and
\* the worker's
NextStartup ==
    \/ Arrive(Startup)
    \/ WorkerInit
    \/ WorkerRecv(Startup)
    \/ WorkerReply(Startup)

SpecStartup == Init /\ [][NextStartup]_vars

SpecStartupFair ==
    /\ SpecStartup
    /\ WF_vars(WorkerInit)
    /\ WF_vars(WorkerRecv(Startup))
    /\ WF_vars(WorkerReply(Startup))

NextPipe ==
    \/ Arrive(Pipe)
    \/ \E r \in Requests : ChildReadsStdin(r)
    \/ \E r \in Requests : ChildClosesStdin(r)
    \/ \E r \in Requests : ChildWrites(r)
    \/ \E r \in Requests : ChildWritesLarge(r)
    \/ \E r \in Requests : ChildExits(r)
    \/ \E r \in Requests : Spawn(r)
    \/ \E r \in Requests : WriteStdin(r)
    \/ \E r \in Requests : PollExited(r)
    \/ \E r \in Requests : PollTimeout(r)
    \/ \E r \in Requests : PollError(r)
    \/ \E r \in Requests : Collect(r, Pipe)
    \/ \E r \in Requests : Persist(r, Pipe)

SpecPipe == Init /\ [][NextPipe]_vars

\* the runner's thread takes every step it can, and the deadline of the
\* polling loop passes; nothing is assumed of the child
SpecPipeFair ==
    /\ SpecPipe
    /\ WF_vars(\E r \in Requests : Spawn(r))
    /\ WF_vars(\E r \in Requests : WriteStdin(r))
    /\ WF_vars(\E r \in Requests : PollExited(r))
    /\ WF_vars(\E r \in Requests : PollTimeout(r))
    /\ WF_vars(\E r \in Requests : Collect(r, Pipe))

NextBurst ==
    \/ Arrive(Burst)
    \/ WorkerInit
    \/ WorkerRecv(Burst)
    \/ WorkerReply(Burst)
    \/ \E r \in Requests : Resume(r)
    \/ \E r \in Requests : Persist(r, Burst)

SpecBurst == Init /\ [][NextBurst]_vars

NextRunner ==
    \/ Arrive(Runner)
    \/ WorkerInit
    \/ \E r \in Requests : ChildClosesStdin(r)
    \/ \E r \in Requests : ChildWrites(r)
    \/ \E r \in Requests : ChildExits(r)
    \/ \E r \in Requests : Spawn(r)
    \/ \E r \in Requests : WriteStdin(r)
    \/ \E r \in Requests : PollExited(r)
    \/ \E r \in Requests : PollTimeout(r)
    \/ \E r \in Requests : PollError(r)
    \/ \E r \in Requests : Collect(r, Runner)
    \/ \E r \in Requests : Persist(r, Runner)

SpecRunner == Init /\ [][NextRunner]_vars

NextRegistry ==
    \/ Arrive(Registry)
    \/ \E r \in Requests : Spawn(r)
    \/ \E r \in Requests : WriteStdin(r)
    \/ \E r \in Requests : ChildWrites(r)
    \/ \E r \in Requests : ChildExits(r)
    \/ \E r \in Requests : PollExited(r)
    \/ \E r \in Requests : Collect(r, Registry)
    \/ \E r \in Requests : Persist(r, Registry)

SpecRegistry == InitRegistry /\ [][NextRegistry]_vars

NextParse ==
    \/ Arrive(Parse)
    \/ WorkerInit
    \/ WorkerRecv(Parse)
    \/ WorkerReply(Parse)
    \/ \E r \in Requests : Timeout(r)
    \/ \E r \in Requests : Resume(r)
    \/ \E r \in Requests : Spawn(r)
    \/ \E r \in Requests : WriteStdin(r)
    \/ \E r \in Requests : ChildWrites(r)
    \/ \E r \in Requests : ChildExits(r)
    \/ \E r \in Requests : PollExited(r)
    \/ \E r \in Requests : PollTimeout(r)
    \/ \E r \in Requests : Collect(r, Parse)
    \/ \E r \in Requests : Persist(r, Parse)

SpecParse == Init /\ [][NextParse]_vars

NextIdentity ==
    \/ load_or_generate
    \/ LoadKey
    \/ GenerateWrite
    \/ GenerateSetPermissions
    \/ Stop
    \/ DeleteKeyFile

SpecIdentity == InitIdentity /\ [][NextIdentity]_vars

NextHealth ==
    \/ Arrive(Health)
    \/ WorkerInit
    \/ WorkerRecv(Health)
    \/ WorkerReply(Health)
    \/ \E r \in Requests : Resume(r)
    \/ \E r \in Requests : Persist(r, Health)
    \/ readiness_check
    \/ \E k \in DOMAIN probes : readiness_respond(k)

SpecHealth == Init /\ [][NextHealth]_vars

(***************************************************************************)
(* Claims.                                                                 *)
(***************************************************************************)
Range(seq) == {seq[i] : i \in 1..Len(seq)}

\* jobs the worker has dequeued and not yet answered
InFlight == {r \in Range(served) : req[r].sends = 0}

\* jobs accepted onto the channel that the worker has not yet answered
Outstanding == {r \in Range(accepted) : req[r].sends = 0}

\* the rows request r has written
RowsOf(r) == {i \in 1..Len(rows) : rows[i].by = r}

\* the step is the arrival of a new request
Arrival == Len(req') = Len(req) + 1

\* C1: the single worker serves the accepted jobs one at a time (never two
\* in flight at once) and in exactly the order in which they were accepted
\* onto the channel.
C1_SerialFifo ==
    /\ Cardinality(InFlight) <= 1
    /\ InFlight = (IF cur = 0 THEN {} ELSE {cur})
    /\ Len(served) <= Len(accepted)
    /\ served = SubSeq(accepted, 1, Len(served))
    /\ channel = SubSeq(accepted, Len(served) + 1, Len(accepted))

\* three infer calls are pending at once; the worker has answered the first
\* two and holds the third
C1_Witness ==
    /\ Len(req) >= 3
    /\ \A r \in 1..3 : req[r].pc = "await_reply"
    /\ served = <<1, 2, 3>>
    /\ cur = 3

\* C2: every infer call returns exactly one outcome, and every job the
\* worker consumes is answered exactly once: one reply attempt per dequeued
\* job, never zero and never two, in every mode.
C2_ExactlyOnce ==
    \A r \in Requests :
      LET q == req[r] IN
      /\ q.sends = (IF r \in Range(served) /\ r # cur THEN 1 ELSE 0)
      /\ q.outcomes = (IF q.reply = "none" /\ q.err # "QueueFull" THEN 0
                       ELSE IF q.pc = "await_reply" THEN 0 ELSE 1)
      /\ (q.outcomes = 1) =>
            \/ q.err \in {"QueueFull", "Timeout", "LlmError"} /\ q.http # 200
            \/ q.err = "" /\ q.value.some /\ q.value.val.ok
                          /\ q.content = q.value.val.text

\* in load-failed mode, one caller timed out and its job was still answered
\* (into the dropped handle), another got the error
C2_Witness ==
    /\ wmode = "load_failed"
    /\ \E r, p \in Requests :
         /\ req[r].err = "Timeout" /\ req[r].sends = 1
         /\ req[p].err = "LlmError" /\ req[p].sends = 1 /\ req[p].outcomes = 1

\* the new request of an arrival step was rejected with QueueFull, HTTP 429,
\* and left the channel as it was
Rejected ==
    LET q == req'[Len(req')] IN
    /\ q.pc = "done" /\ q.err = "QueueFull" /\ q.http = 429
    /\ q.reply = "none"
    /\ channel' = channel /\ accepted' = accepted

\* C3: when the inference channel is full, an infer call fails at once with
\* QueueFull: the caller never waits for a slot, and the rejected job is
\* never placed in the channel or seen by the worker.
C3_QueueFullImmediate ==
    /\ [][(Arrival /\ Len(channel) = QUEUE_CAPACITY) => Rejected]_vars
    /\ [](\A r \in Requests :
            /\ req[r].pc = "await_reply" => r \in Range(accepted)
            /\ req[r].err = "QueueFull" =>
                 /\ r \notin Range(accepted) \cup Range(served) \cup Range(channel)
                 /\ r # cur
                 /\ req[r].sends = 0)

\* a request was rejected while the channel holds 32 jobs and the worker a
\* 33rd
C3_Witness ==
    /\ Len(channel) = QUEUE_CAPACITY
    /\ cur # 0
    /\ Len(req) > 0
    /\ req[Len(req)].err = "QueueFull"

\* C4 as stated: with 32 inferences accepted and none of them completed, the
\* 33rd request is rejected with QueueFull (429).
C4_Original ==
    [][(Arrival /\ Len(accepted) = QUEUE_CAPACITY
                /\ Cardinality(Outstanding) = QUEUE_CAPACITY)
         => Rejected]_vars

\* C4 as amended: the next request is rejected with QueueFull (429) when 32
\* accepted jobs are still waiting in the channel, which 33 accepted and
\* uncompleted inferences guarantee; 32 do not, once the worker has dequeued
\* the first of them.
C4_RejectedWhenChannelHolds32 ==
    /\ [][(Arrival /\ (\/ Len(channel) = QUEUE_CAPACITY
                       \/ Cardinality(Outstanding) >= QUEUE_CAPACITY + 1))
            => Rejected]_vars
    /\ [][(Arrival /\ Cardinality(Outstanding) = QUEUE_CAPACITY /\ cur # 0)
            => req'[Len(req')].pc = "await_reply"]_vars

\* the 34th request was rejected while 33 accepted inferences were
\* uncompleted, after the 33rd had been accepted with 32 uncompleted
C4_Witness ==
    /\ Cardinality(Outstanding) = QUEUE_CAPACITY + 1
    /\ Len(req) = QUEUE_CAPACITY + 2
    /\ req[QUEUE_CAPACITY + 1].pc = "await_reply"
    /\ req[QUEUE_CAPACITY + 2].err = "QueueFull"
    /\ req[QUEUE_CAPACITY + 2].http = 429

\* C5: an infer call whose reply has not arrived at the deadline returns
\* Timeout; the worker is not interrupted and the job stays where it is; when
\* the worker finishes the job it finds the handle dropped, discards the
\* result and is back at its receive, alive in the same mode; every job
\* accepted is eventually dequeued and answered.
C5_TimeoutLeavesWorker ==
    /\ [][\A r \in Requests :
            (req[r].pc = "await_reply" /\ req'[r].pc = "done"
                                       /\ req[r].reply = "open")
              => /\ req'[r].err = "Timeout" /\ req'[r].http = 504
                 /\ <<channel, cur, wpc, wmode, served>>'
                      = <<channel, cur, wpc, wmode, served>>]_vars
    /\ [][\A r \in Requests :
            (req[r].reply = "rx_dropped" /\ req[r].sends = 0
                                         /\ req'[r].sends = 1)
              => /\ req'[r] = [req[r] EXCEPT !.sends = 1]
                 /\ wpc' = "recv" /\ wmode' = wmode /\ cur' = 0
                 /\ <<channel, rows>>' = <<channel, rows>>]_vars
    /\ \A r \in 1..MaxLlm :
         (r \in Range(accepted)) ~> (r \in Requests /\ req[r].sends = 1)

\* a caller timed out, the worker finished its job into the dropped handle,
\* and the next job of the channel was answered after it
C5_Witness ==
    \E r, p \in Requests :
      /\ r < p
      /\ req[r].err = "Timeout" /\ req[r].sends = 1 /\ ~req[r].value.some
      /\ req[p].reply = "sent" /\ req[p].sends = 1

\* run has returned to chat_completions
RunReturned(q) == q.manifest.some /\ q.pc \in {"persist", "done"}

\* C6: when the child has not exited at the runner's deadline, run returns a
\* plugin error describing the timeout, and at that moment the child has
\* been killed and reaped.
C6_TimeoutKilledAndReaped ==
    \A r \in Requests :
      req[r].rerr = "timeout" =>
        /\ RunReturned(req[r])
        /\ req[r].content = <<"PLUGIN_FAILED", "timeout">>
        /\ req[r].child = "reaped"

\* C7: on every return path of run taken after the child was spawned, the
\* child is not left running when run returns.
C7_NoChildLeftRunning ==
    \A r \in Requests :
      (RunReturned(req[r]) /\ req[r].child # "none") => req[r].child # "running"

\* the session id a request's row must carry: the client's when it sent one
SessionOk(r, row) ==
    IF req[r].sid.some THEN row.session_id = req[r].sid.val
    ELSE /\ row.session_id # ClientSession
         /\ \A p \in Requests \ {r} : req[p].session # row.session_id

\* C8 as stated: every request answered 200 has produced exactly one row,
\* whose session_id is the request's or the minted one.
C8_Original ==
    \A r \in Requests :
      req[r].http = 200 =>
        /\ Cardinality(RowsOf(r)) = 1
        /\ \A i \in RowsOf(r) : SessionOk(r, rows[i])

\* C8 as amended: every request answered 200 whose save_conversation
\* succeeded has produced exactly one row, whose session_id is the request's
\* or the minted one; a request answered 200 whose save_conversation failed
\* has produced none.
C8_OneRowWhenSaved ==
    \A r \in Requests :
      req[r].http = 200 =>
        /\ req[r].saved \in {"ok", "err"}
        /\ Cardinality(RowsOf(r)) = (IF req[r].saved = "ok" THEN 1 ELSE 0)
        /\ \A i \in RowsOf(r) : SessionOk(r, rows[i])

\* two requests answered 200 have one row each, one under the client's
\* session id and one under a minted id
C8_Witness ==
    \E r, p \in Requests :
      /\ req[r].http = 200 /\ req[r].sid.some /\ Cardinality(RowsOf(r)) = 1
      /\ req[p].http = 200 /\ ~req[p].sid.some /\ Cardinality(RowsOf(p)) = 1
      /\ \A i \in RowsOf(p) : rows[i].session_id = <<"uuid", p>>

\* C9: a request that ends in an HTTP error has produced no row, in any
\* later state either: the worker's completion of a job whose caller timed
\* out adds none.
C9_ErrorsWriteNothing ==
    /\ [](\A r \in Requests :
            (req[r].http \notin {0, 200} \/ req[r].err # "") =>
               /\ RowsOf(r) = {}
               /\ req[r].saved = "none"
               /\ req[r].pc = "done")
    /\ [][(wpc = "exec" /\ wpc' = "recv") => rows' = rows]_vars

\* a caller timed out with 504 and the worker has since completed its job;
\* the table holds only the row of another request
C9_Witness ==
    /\ Len(rows) = 1
    /\ \E r \in Requests :
         /\ req[r].http = 504 /\ req[r].sends = 1 /\ RowsOf(r) = {}

\* C10: a failure of save_conversation never changes the HTTP outcome: the
\* response is 200 with the assistant content produced before the write,
\* whatever the write returned.
C10_StoreFailureSwallowed ==
    /\ [](\A r \in Requests :
            req[r].saved = "err" =>
               /\ req[r].http = 200 /\ req[r].err = ""
               /\ req[r].resp = [content |-> req[r].content,
                                 model |-> req[r].model])
    /\ [][\A r \in Requests :
            (req[r].pc = "persist" /\ req'[r].pc # "persist") =>
               /\ req'[r].pc = "done" /\ req'[r].http = 200
               /\ req'[r].resp = [content |-> req[r].content,
                                  model |-> req[r].model]]_vars

\* the store failed for a model reply and for a plugin reply, and both were
\* answered 200
C10_Witness ==
    \E r, p \in Requests :
      /\ req[r].saved = "err" /\ req[r].http = 200 /\ req[r].reply = "sent"
      /\ req[p].saved = "err" /\ req[p].http = 200 /\ req[p].manifest.some
      /\ rows = <<>>

\* the plugin of request r failed: run returned an error, or the response it
\* returned carries success = false
PluginFailed(q) ==
    q.manifest.some /\ (q.rerr # "" \/ (q.pc \in {"persist", "done"} /\ q.cout = "fail"))

\* C11 as stated: a request whose plugin failed (success = false, spawn
\* failure, timeout, invalid JSON) is answered 200 with an assistant message
\* that starts with the warning glyph, and that message is a row of the
\* conversations table.
C11_Original ==
    \A r \in Requests :
      (PluginFailed(req[r]) /\ req[r].pc = "done") =>
        /\ req[r].http = 200
        /\ StartsWithWarning(req[r].resp.content)
        /\ \E i \in RowsOf(r) : rows[i].assistant_msg = req[r].resp.content

\* C11 as amended: no failure of the plugin becomes an HTTP error; the
\* request is answered 200 with an assistant message that starts with the
\* warning glyph, and that message is the one row of the request when
\* save_conversation succeeded; when it failed there is no row and the
\* answer is the same.
C11_PluginFailureAnswered200 ==
    \A r \in Requests :
      LET q == req[r] IN
      /\ q.manifest.some => (q.err = "" /\ q.http \in {0, 200})
      /\ PluginFailed(q) =>
            /\ StartsWithWarning(q.content)
            /\ q.rerr # "" => q.content = <<"PLUGIN_FAILED", q.rerr>>
            /\ q.rerr = "" => q.content = <<"PLUGIN_ERROR">>
      /\ (PluginFailed(q) /\ q.pc = "done") =>
            /\ q.http = 200
            /\ q.resp.content = q.content
            /\ Cardinality(RowsOf(r)) = (IF q.saved = "ok" THEN 1 ELSE 0)
            /\ \A i \in RowsOf(r) : rows[i].assistant_msg = q.content

\* a plugin that answered success = false: the request got 200 with the
\* warning, which is its row
C11_Witness ==
    \E r \in Requests :
      /\ req[r].cout = "fail" /\ req[r].rerr = "" /\ req[r].child = "reaped"
      /\ req[r].http = 200
      /\ req[r].resp.content = <<"PLUGIN_ERROR">>
      /\ \E i \in RowsOf(r) : rows[i].assistant_msg = <<"PLUGIN_ERROR">>

\* C12: after PluginRegistry::load every alias of the registry maps to a
\* manifest of the directory that declares it and whose binary was in the
\* directory at load time; a manifest whose binary is missing contributes no
\* alias at all.
C12_OnlyManifestsWithBinary ==
    /\ \A a \in DOMAIN entries :
         /\ Some(entries[a]) \in Range(loaded_dir.files)
         /\ entries[a].name \in loaded_dir.bins
         /\ \E i \in DOMAIN entries[a].commands :
              ToLower(entries[a].commands[i]) = a
    /\ \A f \in Range(loaded_dir.files) :
         (f.some /\ f.val.name \notin loaded_dir.bins) =>
            \A a \in DOMAIN entries : entries[a] # f.val

\* the directory holds the calculator's manifest without its binary and the
\* echo manifest with its binary: both aliases of echo are registered, calc
\* maps to echo, and a request for /Calc was dispatched to echo
C12_Witness ==
    /\ Some(CalcManifest) \in Range(loaded_dir.files)
    /\ "plugin-calculator" \notin loaded_dir.bins
    /\ DOMAIN entries = {<<"n", "o", "p", "e">>, <<"c", "a", "l", "c">>}
    /\ \A a \in DOMAIN entries : entries[a] = EchoManifest
    /\ \E r \in Requests : req[r].manifest = Some(EchoManifest) /\ req[r].http = 200

\* the listing of a /help reply
HelpList(q) == q.content[2]

\* C13: the /help reply lists exactly the registered aliases, each once with
\* the description of the manifest it maps to, in ascending alias order.
C13_HelpListsRegistry ==
    \A r \in Requests :
      (req[r].content # <<>> /\ Head(req[r].content) = "HELP") =>
        LET list == HelpList(req[r]) IN
        /\ {list[i][1] : i \in DOMAIN list} = DOMAIN entries
        /\ Len(list) = Cardinality(DOMAIN entries)
        /\ \A i \in DOMAIN list : list[i][2] = entries[list[i][1]].description
        /\ \A i, j \in DOMAIN list : i < j => StrLess(list[i][1], list[j][1])
        /\ req[r].pc = "done" => req[r].resp.content = req[r].content

\* /help was answered 200 over a registry of three aliases of two manifests
C13_Witness ==
    \E r \in Requests :
      /\ req[r].http = 200
      /\ req[r].resp.content =
           <<"HELP", << << <<"c", "a", "l", "c">>, "arithmetic" >>,
                        << <<"h", "e", "l", "p">>, "ghost" >>,
                        << <<"n", "o", "p", "e">>, "echo" >> >> >>

\* s from its first to its last character that is not whitespace
Trimmed(s) ==
    LET solid == {k \in DOMAIN s : s[k] \notin Whitespace} IN
    IF solid = {} THEN <<>>
    ELSE SubSeq(s, CHOOSE k \in solid : \A m \in solid : k <= m,
                   CHOOSE k \in solid : \A m \in solid : m <= k)

\* e is what C14 says command extraction yields for messages
ExtractionAsClaimed(messages, e) ==
    LET users == {i \in DOMAIN messages : messages[i].role = "user"} IN
    IF users = {} THEN ~e.some
    ELSE
      LET k == CHOOSE i \in users : \A j \in users : j <= i
          text == Trimmed(messages[k].content)
          hasCmd == Len(text) >= 2 /\ text[1] = "/" /\ text[2] # " "
          spaces == {i \in 2..Len(text) : text[i] = " "}
          last == IF spaces = {} THEN Len(text)
                  ELSE (CHOOSE i \in spaces : \A j \in spaces : i <= j) - 1
          head == SubSeq(text, 2, last)
          rest == SubSeq(text, last + 2, Len(text))
      IN /\ e.some <=> hasCmd
         /\ hasCmd =>
              /\ Len(e.val.command) = Len(head)
              /\ \A i \in DOMAIN head : e.val.command[i] = LowerChar(head[i])
              /\ e.val.args = Trimmed(rest)

\* C14: command extraction returns a command if and only if the most recent
\* user-role message, trimmed, starts with '/' and has a non-empty head
\* before the first space; the command is that head lowercased, the argument
\* the trimmed remainder; a lone '/' and a list without user message yield
\* none.  The pipeline routes every validated request by that result.
C14_ExtractCommand ==
    \A r \in Requests :
      LET q == req[r]
          e == extract_command(q.messages)
      IN
      /\ ExtractionAsClaimed(q.messages, e)
      /\ (q.messages # <<>> /\ ~q.stream) =>
            /\ e.some <=> q.reply = "none"
            /\ q.manifest.some =>
                  /\ e.some /\ q.payload.command = e.val.command
                  /\ resolve(entries, e.val.command) = q.manifest
                  /\ e.val.args # <<>> => q.payload.args = e.val.args
            /\ (e.some /\ ~q.manifest.some) =>
                  \/ e.val.command = <<"h", "e", "l", "p">> /\ Head(q.content) = "HELP"
                  \/ q.content = <<"UNKNOWN", e.val.command>>

\* "  /Calc 2+2 " was dispatched as calc with argument 2+2
C14_Witness ==
    \E r \in Requests :
      /\ req[r].messages = <<Msg("user", TextCalcPad)>>
      /\ req[r].manifest = Some(CalcManifest)
      /\ req[r].payload.command = <<"c", "a", "l", "c">>
      /\ req[r].payload.args = <<"2", "+", "2">>
      /\ req[r].http = 200

\* the new request of an arrival step was rejected with InvalidRequest, HTTP
\* 400, and nothing else changed
RejectedInvalid ==
    LET q == req'[Len(req')] IN
    /\ q.pc = "done" /\ q.err = "InvalidRequest" /\ q.http = 400
    /\ q.reply = "none" /\ q.child = "none" /\ q.saved = "none"
    /\ ~q.manifest.some
    /\ <<channel, accepted, served, cur, rows>>' = <<channel, accepted, served, cur, rows>>
    /\ \A r \in Requests : req'[r] = req[r]

\* C17: a chat request with an empty messages list, or with stream = true,
\* is rejected with InvalidRequest (400) before any side effect: no job is
\* enqueued, no plugin child is spawned and no row is written, then or later.
C17_InvalidBeforeSideEffects ==
    /\ [][(Arrival /\ LET q == req'[Len(req')] IN q.messages = <<>> \/ q.stream)
            => RejectedInvalid]_vars
    /\ [](\A r \in Requests :
            (req[r].messages = <<>> \/ req[r].stream) =>
               /\ req[r].err = "InvalidRequest" /\ req[r].http = 400
               /\ req[r].pc = "done"
               /\ r \notin Range(accepted) \cup Range(channel) \cup Range(served)
               /\ req[r].child = "none"
               /\ RowsOf(r) = {})

\* a streaming request for a plugin command was rejected with 400
C17_Witness ==
    \E r \in Requests :
      /\ req[r].stream
      /\ req[r].messages = <<Msg("user", TextCalcPad)>>
      /\ req[r].http = 400 /\ req[r].err = "InvalidRequest"
      /\ req[r].child = "none" /\ rows = <<>> /\ channel = <<>>

\* C15: load_or_generate is idempotent across restarts: called again on the
\* key file the previous call left, a call yields the public key hex the
\* previous call yielded, also when the previous call generated the file; a
\* key file that exists is never rewritten, and a key file of 32 bytes
\* always yields the public key of those bytes.
C15_LoadOrGenerateIdempotent ==
    /\ \A i \in 1..(Len(boots) - 1) :
         (boots[i + 1].found = boots[i].left /\ boots[i].result.ok) =>
            /\ boots[i + 1].result = boots[i].result
            /\ boots[i + 1].left = boots[i].left
    /\ \A i \in DOMAIN boots :
         boots[i].found.some =>
            /\ boots[i].left = boots[i].found
            /\ Len(boots[i].found.val.bytes) = KEY_LEN =>
                  boots[i].result = Ok(public_key_hex(boots[i].found.val.bytes))

\* the first boot generated the key file, the next two loaded it and
\* yielded the same public key hex
C15_Witness ==
    /\ Len(boots) = 3
    /\ ~boots[1].found.some /\ boots[1].result.ok
    /\ boots[2].found = boots[1].left /\ boots[2].result = boots[1].result
    /\ boots[3].found = boots[2].left /\ boots[3].result = boots[1].result
    /\ key_file = boots[1].left

\* the status C16 gives for each error kind
ClaimedStatus(kind) ==
    CASE kind = "InvalidRequest" -> 400
      [] kind = "SecurityError" -> 403
      [] kind = "QueueFull" -> 429
      [] kind = "Timeout" -> 504
      [] kind \in {"LlmError", "PluginError", "DatabaseError", "ConfigError",
                   "IoError", "SerdeError", "Cancelled"} -> 500

\* C16: every error kind is rendered with its fixed HTTP status (400, 403,
\* 429, 504, and 500 for the rest) and the body {error: {message, type:
\* "edge_runtime_error"}}; every request that ended in an error carries the
\* status of its kind.
C16_ErrorMapping ==
    /\ \A kind \in AppErrorKinds :
         LET resp == into_response(kind) IN
         /\ resp.status = ClaimedStatus(kind)
         /\ DOMAIN resp.body = {"error"}
         /\ DOMAIN resp.body.error = {"message", "type"}
         /\ resp.body.error.type = "edge_runtime_error"
    /\ \A r \in Requests :
         /\ req[r].err # "" =>
              /\ req[r].err \in AppErrorKinds
              /\ req[r].http = ClaimedStatus(req[r].err)
         /\ req[r].http \notin {0, 200} => req[r].err # ""

\* one request was answered 504 for a timeout, another 500 for an error of
\* the model
C16_Witness ==
    \E r, p \in Requests :
      /\ req[r].err = "Timeout" /\ req[r].http = 504
      /\ req[p].err = "LlmError" /\ req[p].http = 500

\* the step appends one row, written by a request that is not yet answered,
\* with an id above every id of the table
AppendsRow ==
    \E p \in Requests :
      /\ req[p].http = 0 /\ req[p].saved = "none"
      /\ Len(rows') = Len(rows) + 1
      /\ SubSeq(rows', 1, Len(rows)) = rows
      /\ rows'[Len(rows')].by = p
      /\ rows'[Len(rows')].session_id = req[p].session
      /\ \A i \in DOMAIN rows : rows[i].id < rows'[Len(rows')].id

Terminal == {"loaded", "mock", "load_failed"}

\* C19: is_ready is false while the worker is initializing, becomes true
\* when the worker enters loaded, mock or load-failed, and never returns to
\* false; every readiness response has llm_loaded = is_ready as read,
\* memory_ok = the result of ping, and ready = llm_loaded && memory_ok.
C19_Readiness ==
    /\ [](is_ready <=> wmode \in Terminal)
    /\ [](wmode \in Terminal \cup {"initializing"})
    /\ [][is_ready => is_ready']_vars
    /\ [][(wmode \in Terminal) => wmode' = wmode]_vars
    /\ [](\A k \in DOMAIN probes :
            /\ probes[k].llm_loaded = (probes[k].worker \in Terminal)
            /\ probes[k].pc = "done" =>
                  probes[k].ready = (probes[k].llm_loaded /\ probes[k].memory_ok))
    /\ [][\A k \in DOMAIN probes :
            (probes[k].pc = "ping" /\ probes'[k].pc = "done") =>
               /\ probes'[k].llm_loaded = probes[k].llm_loaded
               /\ probes'[k].ready = (probes[k].llm_loaded /\ probes'[k].memory_ok)]_vars

\* a readiness request answered while the worker was initializing reported
\* llm_loaded = false; a later one, with the worker in mock mode and the
\* store failing, reported llm_loaded = true and ready = false
C19_Witness ==
    /\ Len(probes) = 2
    /\ probes[1].pc = "done" /\ ~probes[1].llm_loaded /\ probes[1].memory_ok
    /\ ~probes[1].ready
    /\ probes[2].pc = "done" /\ probes[2].llm_loaded /\ ~probes[2].memory_ok
    /\ ~probes[2].ready
    /\ probes[2].worker = "mock"

\* C20 as stated: llm_loaded tells a worker that really loaded the model
\* apart from one in mock or load-failed mode: it is true only when the
\* model was loaded.
C20_Original ==
    \A k \in DOMAIN probes :
      (probes[k].pc = "done" /\ probes[k].llm_loaded) => probes[k].worker = "loaded"

\* C20 as amended: llm_loaded is the ready flag: it is true in all three
\* terminal states and false only while the worker is initializing, so two
\* readiness responses differ in llm_loaded only when one of them was read
\* during initialization; ready is then true whenever ping succeeds.
C20_LlmLoadedIsReadyFlag ==
    \A k \in DOMAIN probes :
      probes[k].pc = "done" =>
        /\ probes[k].worker \in Terminal =>
              (probes[k].llm_loaded /\ probes[k].ready = probes[k].memory_ok)
        /\ probes[k].worker = "initializing" =>
              (~probes[k].llm_loaded /\ ~probes[k].ready)

\* with the worker in load-failed mode a readiness response reported
\* llm_loaded = true and ready = true
C20_Witness ==
    \E k \in DOMAIN probes :
      /\ probes[k].pc = "done" /\ probes[k].worker = "load_failed"
      /\ wmode = "load_failed"
      /\ probes[k].llm_loaded /\ probes[k].memory_ok /\ probes[k].ready

\* the content of the most recent user-role message of request q
FinalUserMessage(q) ==
    q.messages[LastUserIndex(q.messages, Len(q.messages))].content

\* C21: for every outcome the persisted turn's user message is the content
\* of the most recent user-role message of the request, the one the routing
\* decision was made on, also when the list ends with a non-user message.
C21_UserMsgIsFinalUserMessage ==
    \A i \in DOMAIN rows :
      LET q == req[rows[i].by] IN
      /\ LastUserIndex(q.messages, Len(q.messages)) # 0
      /\ rows[i].user_msg = FinalUserMessage(q)

ArgumentKeys == {"args", "city", "expression", "path"}

UnknownCommand(q) ==
    LET e == extract_command(q.messages) IN
    /\ q.messages # <<>> /\ ~q.stream
    /\ e.some
    /\ e.val.command # <<"h", "e", "l", "p">>
    /\ ~resolve(entries, e.val.command).some

\* C23 as stated: an unknown command is answered 200 with a message naming
\* it and pointing at /help, without child or job, and exactly one row is
\* inserted.
C23_Original ==
    \A r \in Requests :
      (UnknownCommand(req[r]) /\ req[r].pc = "done") =>
        /\ req[r].http = 200
        /\ req[r].resp.content =
             <<"UNKNOWN", extract_command(req[r].messages).val.command>>
        /\ req[r].child = "none" /\ req[r].reply = "none"
        /\ Cardinality(RowsOf(r)) = 1

\* C23 as amended: an unknown command is answered 200 with a message naming
\* it and pointing at /help; no plugin child is spawned and no inference job
\* enqueued; exactly one row is inserted when save_conversation succeeds and
\* none when it fails.
C23_UnknownCommandAnswered ==
    \A r \in Requests :
      UnknownCommand(req[r]) =>
        LET q == req[r]
            cmd == extract_command(q.messages).val.command
        IN /\ q.content = <<"UNKNOWN", cmd>>
           /\ q.err = ""
           /\ q.child = "none" /\ ~q.manifest.some
           /\ q.reply = "none" /\ r \notin Range(accepted)
           /\ q.pc \in {"persist", "done"}
           /\ q.pc = "done" =>
                /\ q.http = 200 /\ q.resp.content = q.content
                /\ Cardinality(RowsOf(r)) = (IF q.saved = "ok" THEN 1 ELSE 0)
                /\ \A i \in RowsOf(r) : rows[i].assistant_msg = q.content

\* /nope was answered 200 with the unknown-command message, which is the
\* one row of the table
C23_Witness ==
    \E r \in Requests :
      /\ req[r].messages = <<MsgNope>>
      /\ req[r].http = 200
      /\ req[r].resp.content = <<"UNKNOWN", <<"n", "o", "p", "e">> >>
      /\ Len(rows) = 1 /\ rows[1].by = r
      /\ rows[1].assistant_msg = req[r].resp.content

\* the aliases a manifest declares, as the registry keys them
AliasesOf(manifest) ==
    {ToLower(manifest.commands[i]) : i \in DOMAIN manifest.commands}

\* the files i < j of the loaded directory are manifests with binaries
\* that both declare alias a
Collide(i, j, a) ==
    LET files == loaded_dir.files IN
    /\ i < j
    /\ files[i].some /\ files[i].val.name \in loaded_dir.bins
    /\ files[j].some /\ files[j].val.name \in loaded_dir.bins
    /\ a \in AliasesOf(files[i].val) \cap AliasesOf(files[j].val)

\* C24: when two manifests with existing binaries declare the same alias
\* (case-insensitively), the alias maps to one that no later manifest of the
\* directory iteration overrides, and the collision is reported by a warning
\* of load.
C24_CollisionLastWinsAndWarned ==
    \A i, j \in DOMAIN loaded_dir.files :
      \A a \in DOMAIN entries :
        Collide(i, j, a) =>
          /\ entries[a] # loaded_dir.files[i].val
          /\ \E k \in j..Len(loaded_dir.files) : entries[a] = loaded_dir.files[k].val
          /\ \E n \in DOMAIN LoadWarnings(loaded_dir.files, loaded_dir.bins) :
               Head(LoadWarnings(loaded_dir.files, loaded_dir.bins)[n]) = "collision"

\* C25: in every reachable state the inference channel holds at most 32
\* pending jobs, however many callers are sending and with the one worker
\* receiving.
C25_ChannelAtMostCapacity ==
    /\ Len(channel) <= QUEUE_CAPACITY
    /\ Cardinality(Range(channel)) = Len(channel)

\* the channel is full while 33 callers wait for replies: 32 jobs queued and
\* one in the worker's hands
C25_Witness ==
    /\ Len(channel) = QUEUE_CAPACITY
    /\ Cardinality({r \in Requests : req[r].pc = "await_reply"}) = QUEUE_CAPACITY + 1

\* C26 as stated: once every sender is dropped, the worker finishes the job
\* it is serving, takes no further job from the channel, and returns.
C26_Original ==
    /\ [][(~sender.held) => served' = served]_vars
    /\ (~sender.held) ~> (wpc = "returned")

\* C26 as amended: once every sender is dropped, the worker finishes the
\* job it is serving, then serves every job still queued, oldest first, and
\* returns when the channel is empty; it returns for no other reason and
\* takes no step afterwards.
C26_WorkerDrainsThenReturns ==
    /\ [][(wpc' = "returned" /\ wpc # "returned")
            => (~sender.held /\ channel = <<>> /\ cur = 0)]_vars
    /\ [][(wpc = "returned")
            => (wpc' = "returned" /\ served' = served /\ channel' = channel)]_vars
    /\ [][(~sender.held /\ served' # served)
            => (served' = Append(served, Head(channel))
                /\ channel' = Tail(channel))]_vars
    /\ [](wpc = "returned"
            => /\ served = accepted
               /\ \A r \in Range(accepted) : req[r].sends = 1)
    /\ (~sender.held) ~> (wpc = "returned")

\* the worker has returned after serving a job that was still queued when
\* the sender was dropped
C26_Witness ==
    /\ wpc = "returned"
    /\ sender.left # <<>>
    /\ Range(sender.left) \subseteq Range(served)

\* C27: when the model file exists but fails to load, the worker sets ready
\* and stays in load-failed mode at its receive loop; it dequeues the jobs in
\* the order they were accepted and answers each with the same LlmError;
\* every accepted job is answered, and no job gets a text: its caller
\* returns an error (LlmError, or Timeout if it stopped waiting) and writes
\* no row.
C27_LoadFailedAnswersEveryJob ==
    /\ [](modelFile = "corrupt" => wmode \in {"initializing", "load_failed"})
    /\ [](wmode = "load_failed" =>
            /\ ready
            /\ wpc \in {"recv", "exec"}
            /\ served = SubSeq(accepted, 1, Len(served))
            /\ \A r \in Requests :
                 /\ req[r].value.some =>
                       req[r].value.val = [ok |-> FALSE, kind |-> "LlmError"]
                 /\ req[r].http # 200
                 /\ req[r].pc = "done" => req[r].err \in {"LlmError", "Timeout"}
                 /\ RowsOf(r) = {})
    /\ [][(wmode = "load_failed") => wmode' = "load_failed"]_vars
    /\ \A r \in 1..MaxLlm :
         (modelFile = "corrupt" /\ r \in Range(accepted))
           ~> (r \in Requests /\ req[r].sends = 1)

\* in load-failed mode three jobs were answered in the order accepted and
\* each caller returned the LlmError as HTTP 500
C27_Witness ==
    /\ wmode = "load_failed"
    /\ ready
    /\ served = <<1, 2, 3>>
    /\ cur = 0
    /\ \A r \in 1..3 : req[r].err = "LlmError" /\ req[r].http = 500
                         /\ req[r].sends = 1

\* C28: while a plugin invocation is in progress for a request, it runs in
\* a blocking-friendly task slot: the handler does not occupy the runtime
\* worker thread, which stays free for the other pipeline tasks.
C28_RunnerOffloaded ==
    \A r \in Requests :
      (req[r].child = "running" \/ InRun(req[r]))
        => ~OccupiesRuntimeThread(req[r])

\* the command of request q resolves in the registry
Resolves(q) ==
    LET e == extract_command(q.messages) IN
    /\ q.messages # <<>> /\ ~q.stream
    /\ e.some
    /\ e.val.command # <<"h", "e", "l", "p">>
    /\ resolve(entries, e.val.command).some

\* the manifest the command of request q resolves to
Resolved(q) == resolve(entries, extract_command(q.messages).val.command)

\* C29 as stated: the registry never changes after startup, so a command
\* resolves to the same manifest in every request whatever happens to the
\* plugin directory; when the binary of a registered command has been
\* deleted, the command still resolves, run returns the not-found plugin
\* error without spawning a child, and the request is answered 200 with the
\* plugin-failed warning and one row.
C29_Original ==
    /\ [][entries' = entries]_vars
    /\ [](\A r \in Requests :
            Resolves(req[r]) =>
              /\ req[r].manifest = Resolved(req[r])
              /\ (req[r].rerr = "not_found" /\ req[r].pc = "done") =>
                    /\ req[r].child = "none"
                    /\ req[r].http = 200
                    /\ req[r].resp.content = <<"PLUGIN_FAILED", "not_found">>
                    /\ Cardinality(RowsOf(r)) = 1)

\* C29 as amended: the same, with one row when save_conversation succeeds
\* and none when it fails.
C29_DeletedBinaryStillResolves ==
    /\ [][entries' = entries]_vars
    /\ [][(Arrival /\ Resolves(req'[Len(req')])
                   /\ Resolved(req'[Len(req')]).val.name \notin binaries)
            => (/\ req'[Len(req')].manifest = Resolved(req'[Len(req')])
                /\ req'[Len(req')].rerr = "not_found"
                /\ req'[Len(req')].child = "none"
                /\ req'[Len(req')].pc = "persist")]_vars
    /\ [](\A r \in Requests :
            Resolves(req[r]) =>
              /\ req[r].manifest = Resolved(req[r])
              /\ req[r].rerr = "not_found" =>
                    /\ req[r].child = "none"
                    /\ req[r].err = ""
                    /\ req[r].content = <<"PLUGIN_FAILED", "not_found">>
                    /\ StartsWithWarning(req[r].content)
                    /\ req[r].pc \in {"persist", "done"}
                    /\ req[r].pc = "done" =>
                          /\ req[r].http = 200
                          /\ req[r].resp.content = req[r].content
                          /\ Cardinality(RowsOf(r)) =
                               (IF req[r].saved = "ok" THEN 1 ELSE 0))

\* /calc ran its plugin in one request; the binary was then deleted and
\* the next /calc was answered 200 with the not-found warning, stored as
\* its one row
C29_Witness ==
    /\ Len(req) = 2
    /\ req[1].child = "reaped" /\ req[1].http = 200
    /\ req[2].manifest = req[1].manifest
    /\ req[2].rerr = "not_found" /\ req[2].child = "none"
    /\ req[2].http = 200
    /\ req[2].resp.content = <<"PLUGIN_FAILED", "not_found">>
    /\ Cardinality(RowsOf(2)) = 1

\* the command extracted from request q is help
HelpCommand(q) ==
    LET e == extract_command(q.messages) IN
    /\ q.messages # <<>> /\ ~q.stream
    /\ e.some
    /\ e.val.command = <<"h", "e", "l", "p">>

\* C30: when the extracted command is help, the reply is the listing built
\* from the registry's enumeration and no plugin is resolved or spawned,
\* whether or not a manifest registered the alias help.
C30_BuiltInHelpWins ==
    \A r \in Requests :
      HelpCommand(req[r]) =>
        LET q == req[r] IN
        /\ q.content = <<"HELP", commands(entries)>>
        /\ ~q.manifest.some /\ q.child = "none" /\ q.payload = <<>>
        /\ q.rerr = "" /\ q.err = ""
        /\ q.pc \in {"persist", "done"}
        /\ q.pc = "done" => (q.http = 200 /\ q.resp.content = q.content)

\* a manifest with an existing binary registered the alias help, and /help
\* was answered 200 with the listing, which names that alias
C30_Witness ==
    /\ resolve(entries, <<"h", "e", "l", "p">>).some
    /\ resolve(entries, <<"h", "e", "l", "p">>).val.name \in binaries
    /\ \E r \in Requests :
         /\ HelpCommand(req[r])
         /\ req[r].http = 200
         /\ req[r].resp.content = <<"HELP", commands(entries)>>
         /\ req[r].child = "none"

\* request q carries a slash-command: extract_command finds one in its last
\* user message
CommandTurn(q) ==
    q.messages # <<>> /\ ~q.stream /\ extract_command(q.messages).some

\* request q is for the model
LlmTurn(q) ==
    q.messages # <<>> /\ ~q.stream /\ ~extract_command(q.messages).some

\* C31: every chat request goes to the plugin side or to the LLM, never to
\* both: a slash-command request never enqueues an inference job, a request
\* for the model never resolves or spawns a plugin, and one request spawns at
\* most one child or enqueues at most one job.
C31_RoutedToExactlyOne ==
    /\ [](\A r \in Requests :
            LET q == req[r] IN
            /\ CommandTurn(q) =>
                  /\ r \notin Range(accepted) \cup Range(channel) \cup Range(served)
                  /\ q.reply = "none" /\ q.sends = 0 /\ ~q.value.some
            /\ LlmTurn(q) =>
                  /\ ~q.manifest.some /\ q.child = "none" /\ q.payload = <<>>
                  /\ q.pc \notin {"spawn", "write", "poll", "collect"}
            /\ ~(q.child # "none" /\ r \in Range(accepted))
            /\ Cardinality({i \in DOMAIN accepted : accepted[i] = r}) <= 1)
    /\ [][\A r \in Requests :
            /\ (req'[r].child = "running" /\ req[r].child # "running")
                  => (req[r].child = "none" /\ req[r].pc = "spawn")
            /\ (req[r].pc # "spawn") => (req'[r].pc # "spawn")]_vars

\* one request ran a plugin child and never reached the channel; another
\* was answered by the worker and never had a child
C31_Witness ==
    \E r, p \in Requests :
      /\ CommandTurn(req[r]) /\ req[r].child = "reaped" /\ req[r].http = 200
      /\ r \notin Range(accepted)
      /\ LlmTurn(req[p]) /\ p \in Range(served) /\ req[p].sends = 1
      /\ req[p].child = "none" /\ req[p].http = 200

\* C32: when load_or_generate finds a key file that does not hold exactly 32
\* bytes, it returns a Security error; it generates no key (the process holds
\* no signing key afterwards) and leaves the file as it found it.
C32_WrongLengthIsSecurityError ==
    /\ [](\A i \in DOMAIN boots :
            (boots[i].found.some /\ Len(boots[i].found.val.bytes) # KEY_LEN) =>
               /\ boots[i].result = Err("SecurityError")
               /\ boots[i].left = boots[i].found)
    /\ [][(identity.pc = "load" /\ Len(key_file.val.bytes) # KEY_LEN)
            => (/\ key_file' = key_file
                /\ identity' = Down
                /\ Len(boots') = Len(boots) + 1
                /\ boots'[Len(boots')].result = Err("SecurityError"))]_vars

\* the service was started twice on a key file of another length: both
\* starts ended in the Security error and the file is as it was
C32_Witness ==
    /\ Len(boots) >= 2
    /\ \A i \in 1..2 :
         /\ boots[i].found.some
         /\ Len(boots[i].found.val.bytes) # KEY_LEN
         /\ boots[i].result = Err("SecurityError")
    /\ key_file = boots[1].found
    /\ identity = Down

\* C33: in every reachable state in which the key file holds a 32-byte seed
\* its mode is owner-only (0600), during generation and after a generation
\* that failed as well.
C33_SeedFileOwnerOnly ==
    (key_file.some /\ Len(key_file.val.bytes) = KEY_LEN)
      => key_file.val.mode = "0600"

\* C34: in every successful chat response the assistant content returned
\* equals the assistant message handed to save_conversation for that
\* request, and the model returned equals the model handed over; a row the
\* store took for the request holds the same two values. This holds on the
\* help, plugin, unknown-command and LLM paths.
C34_ResponseEqualsStored ==
    \A r \in Requests :
      LET q == req[r] IN
      /\ q.http = 200 =>
            /\ q.handed.some
            /\ q.resp.content = q.handed.val.assistant_message
            /\ q.resp.model = q.handed.val.model
            /\ q.resp.model = q.model
            /\ \A i \in RowsOf(r) :
                 /\ rows[i].assistant_msg = q.resp.content
                 /\ rows[i].model = q.resp.model
      /\ q.handed.some => q.pc = "done" /\ q.http = 200

\* a model request and a plugin request were both answered 200, each with
\* the text and model of its row
C34_Witness ==
    \E r, p \in Requests :
      /\ LlmTurn(req[r]) /\ req[r].http = 200
      /\ CommandTurn(req[p]) /\ req[p].manifest.some /\ req[p].http = 200
      /\ \E i, j \in DOMAIN rows :
           /\ rows[i].by = r /\ rows[i].assistant_msg = req[r].resp.content
           /\ rows[j].by = p /\ rows[j].assistant_msg = req[p].resp.content
           /\ rows[j].model = req[p].resp.model

\* C35: infer returns QueueFull only when the channel holds 32 pending
\* jobs; an enqueue that fails for another reason, such as a channel whose
\* receiver was dropped with the worker thread, is not reported as QueueFull
\* (429).
C35_QueueFullOnlyWhenFull ==
    [][(Arrival /\ req'[Len(req')].err = "QueueFull")
         => Len(channel) = QUEUE_CAPACITY]_vars

\* C36: while the worker is initializing (is_ready false) the jobs accepted
\* stay in the channel, in acceptance order, and none is dequeued, dropped or
\* rejected for the worker not being ready: a job is rejected only when the
\* channel holds 32, so at most 32 are accepted in that phase. Once the
\* worker is in loaded, mock or load-failed mode it answers all of them in
\* acceptance order.
C36_BacklogOfStartupAnswered ==
    /\ [](wmode = "initializing" =>
            /\ ~ready
            /\ channel = accepted /\ served = <<>> /\ cur = 0
            /\ Len(accepted) <= QUEUE_CAPACITY)
    /\ [][(Arrival /\ wmode = "initializing")
            => (IF Len(channel) < QUEUE_CAPACITY
                THEN /\ req'[Len(req')].pc = "await_reply"
                     /\ channel' = Append(channel, Len(req'))
                ELSE Rejected)]_vars
    /\ [][(wmode = "initializing" /\ wmode' # "initializing")
            => (channel' = channel /\ req' = req)]_vars
    /\ [](/\ served = SubSeq(accepted, 1, Len(served))
           /\ channel = SubSeq(accepted, Len(served) + 1, Len(accepted)))
    /\ \A r \in 1..QUEUE_CAPACITY :
         (wmode = "initializing" /\ r \in Range(accepted))
           ~> (wmode # "initializing" /\ r \in Requests /\ req[r].sends = 1)

\* 32 jobs were accepted before the worker dequeued any, the two requests
\* after them were rejected, and the worker, now in its mode, has answered
\* all 32 in order
C36_Witness ==
    /\ wmode # "initializing" /\ ready
    /\ accepted = [i \in 1..QUEUE_CAPACITY |-> i]
    /\ served = accepted
    /\ cur = 0
    /\ \A r \in 1..QUEUE_CAPACITY : req[r].sends = 1 /\ req[r].reply = "sent"
    /\ Len(req) = QUEUE_CAPACITY + 2
    /\ req[QUEUE_CAPACITY + 1].err = "QueueFull"
    /\ req[QUEUE_CAPACITY + 2].err = "QueueFull"

\* request r was abandoned by its caller: infer returned Timeout and dropped
\* the reply receiver
Abandoned(r) == req[r].err = "Timeout" /\ req[r].reply = "rx_dropped"

\* C37: the caller's deadline runs from the enqueue, so a job can time out
\* while it waits in the channel. The timeout removes nothing: the job keeps
\* its place in the channel until the worker dequeues it, and the worker
\* executes it in full (one reply attempt after an execution step of its
\* own) before it takes a later job.
C37_AbandonedJobKeepsSlot ==
    /\ [][\A r \in Requests :
            (req[r].pc = "await_reply" /\ req'[r].err = "Timeout")
              => (/\ req[r].reply = "open"
                  /\ channel' = channel /\ cur' = cur /\ wpc' = wpc
                  /\ served' = served)]_vars
    /\ [][\A i \in DOMAIN channel :
            \/ i <= Len(channel') /\ channel'[i] = channel[i]
            \/ /\ i = 1 /\ cur' = channel[1] /\ wpc' = "exec"
               /\ channel' = Tail(channel)
            \/ i > 1 /\ channel'[i - 1] = channel[i]]_vars
    /\ [][\A r \in Requests :
            (Abandoned(r) /\ req'[r].sends = 1 /\ req[r].sends = 0)
              => (cur = r /\ wpc = "exec" /\ served' = served)]_vars
    /\ [](\A r \in Requests :
            Abandoned(r) =>
              /\ r \in Range(accepted)
              /\ r \in Range(channel) \/ r \in Range(served)
              /\ (r \in Range(served) /\ r # cur) => req[r].sends = 1)
    /\ [](served = SubSeq(accepted, 1, Len(served)))
    /\ \A r \in 1..MaxLlm :
         (r \in Requests /\ Abandoned(r) /\ r \in Range(channel))
           ~> (r \in Requests /\ req[r].sends = 1)

\* while the worker serves the first job, the second timed out at the head
\* of the channel and still holds its place before the third
C37_Witness ==
    /\ cur = 1 /\ wpc = "exec"
    /\ channel = <<2, 3>>
    /\ Abandoned(2)
    /\ req[2].sends = 0
    /\ req[3].pc = "await_reply"

\* C38: a child that writes one complete valid response document and would
\* then exit has its response returned by run whatever the size of the
\* document: it is never left blocked on its stdout while the runner polls
\* for its exit, and never reported as timed out.
C38_LargeResponseReturned ==
    \A r \in Requests :
      req[r].cout = "pipe_full" =>
        /\ req[r].rerr # "timeout"
        /\ (RunReturned(req[r]) /\ req[r].rerr = "")
             => req[r].content = <<"FORMAT", req[r].manifest.val.name>>

\* C39: run always returns: whatever the child does after a successful
\* spawn, including never reading its stdin and never exiting, the handler
\* inside run gets out of it with a response or an error.
C39_RunAlwaysReturns ==
    \A r \in 1..MaxRun :
      (r \in Requests /\ InRun(req[r]))
        ~> (r \in Requests /\ RunReturned(req[r]))

====
